---------------------------- MODULE Spec2Model ----------------------------
(***************************************************************************)
(* Tartiflette: a snapshot fuzzer on KVM.                                  *)
(*                                                                         *)
(* Several state machines share this module:                               *)
(*   Spec     the fuzzing orchestrator of fuzzer_maison/src/fuzz.rs: the   *)
(*            workers, the dry-run -> main barrier, the corpus, the shared *)
(*            mutexes and the termination flag;                            *)
(*   SpecCfg  start-up: Config::validate and compute_fuzz_mode;            *)
(*   SpecMem  the guest memory of src/memory.rs: the bump allocator, the   *)
(*            page tables and mmap.                                        *)
(*   SpecRW   reads and writes of that memory; SpecVm the Vm of vm.rs;     *)
(*   SpecCase the workers' cases on the template; SpecSched the corpus     *)
(*            scheduler; SpecSkip input_skip_factor; SpecFeed the static   *)
(*            feed over the input sizes.                                   *)
(* A specification leaves the variables of the other machines untouched.   *)
(***************************************************************************)
EXTENDS Integers, Sequences, FiniteSets, TLC

(***************************************************************************)
(* Bounds of the model.                                                    *)
(***************************************************************************)
\* the largest `jobs` of an orchestrator session
MaxJobs == 2
\* tickets (mutations_count) a session hands out at most
MaxTickets == 4
\* distinct input contents the mutator and the seed files produce, besides the empty one
NumContents == 1

(***************************************************************************)
(* Program constants.                                                      *)
(***************************************************************************)
\* fuzz.rs:297  "Start with 4 bytes"
StaticStartSize == 4
\* config.rs:12
MAX_JOBS == 1024

\* Option::None of mutation_num, and of a seed directory without entries
NoCap == -1
NoSeed == -1

\* crate::app::Mode
Static == "Static"
DynamicDryRun == "DynamicDryRun"
DynamicMain == "DynamicMain"
DynamicMinimize == "DynamicMinimize"
Modes == {Static, DynamicDryRun, DynamicMain, DynamicMinimize}

\* crate::feedback::FeedBackMethod
FeedBackMethods == {"NONE", "SOFT"}

\* the mutexes of App
Locks == {"exe", "corpus", "current_file", "max_cov", "fuzz_input_max_size",
          "max_fuzz_run_time_ms", "feedback"}

\* input contents; 0 is the empty input of FuzzInput::new
Contents == 0 .. NumContents
\* the file name of the synthetic input, "[DYNAMIC-0-SIZE]"
DynamicZeroSize == -1

Min(a, b) == IF a <= b THEN a ELSE b
Max(a, b) == IF a >= b THEN a ELSE b

VARIABLES
  \* ---- orchestrator (fuzz.rs) ----
  cfg,                 \* app.config
  mode,                \* app mode flag
  terminating,         \* app termination flag
  switching_feedback,  \* app.switching_feedback
  COUNT,               \* the static COUNT of set_dynamic_main_state
  mutations_count,     \* app.metrics.mutations_count
  fuzz_input_count,    \* app.metrics.fuzz_input_count
  crashes_count,       \* app.metrics.crashes_count
  corpus,              \* app.corpus: sequence of [filename, idx]
  owner,               \* for each mutex, the worker that holds it (0: free)
  pc,                  \* each worker's position
  caller,              \* which function called add_dynamic_input
  input,               \* case.input: content
  dataLen,             \* case.input.data.len() during the static feed
  static_file_try_more,\* case.static_file_try_more
  loopsStarted,        \* fuzz_loop calls so far, all workers
  begunAfterTerm,      \* per worker, fuzz_loop calls begun with the flag set
  duplicateAdd,        \* add_file was called on a name the corpus held already
  \* ---- start-up (config.rs, fuzz.rs:589) ----
  conf,                \* the Config under validation
  dirs,                \* the state of the four directories on disk
  startup,             \* "parsed", "validated", "fuzzing" or "exited"
  validateResult,      \* what Config::validate returned
  startMode,           \* the mode fuzz() computed
  \* ---- guest memory (memory.rs) ----
  memSize,             \* pmem.size
  top,                 \* pmem.top
  tables,              \* page tables: path of indices -> frame address
  pte,                 \* terminal entries in use: page number -> frame address
  okFrames,            \* pages mapped by an mmap that succeeded, with their frame
  lastOp,              \* the last memory operation and its result
  allocLog,            \* the frames allocate_frame has handed out, in order
  phys,                \* the arena's bytes that were written: address -> byte
  lastWrite,           \* the last write to the virtual address space
  writes,              \* the writes to the address space and to the arena so far
  \* ---- virtual machines (vm.rs) ----
  vms,                 \* the Vm values that exist: id -> Vm
  hostWritesLogged,    \* whether the dirty log of this host reports host writes
  vmOps,               \* the calls on Vm values so far
  vmLast,              \* the last call on a Vm value, the state before it, its result
  \* ---- the workers' cases on the template (fuzz.rs:50, fuzz.rs:91) ----
  cases,               \* each worker's FuzzCase: its Vm and where it is in run
  \* ---- the scheduler (fuzz.rs:368-481) ----
  current_file,        \* app.current_file: << >>, or <<filename>>
  tries,               \* case.tries of each worker
  schedLast,           \* the last call of prepare_dynamic_input and what it examined
  skipLast,            \* the last call of input_skip_factor: arguments and result
  \* ---- the threads of a session (fuzz.rs:547-641) ----
  job_active_count,    \* app.metrics.job_active_count
  job_finished_count,  \* app.metrics.job_finished_count
  supervisor,          \* the supervisor thread: "loop" or "exited"
  poisoned             \* the mutexes a thread panicked under

orchVars == <<cfg, mode, terminating, switching_feedback, COUNT, mutations_count,
              fuzz_input_count, crashes_count, corpus, owner, pc,
              caller, input, dataLen, static_file_try_more,
              loopsStarted, begunAfterTerm, duplicateAdd>>

cfgVars == <<conf, dirs, startup, validateResult, startMode>>

memVars == <<memSize, top, tables, pte, okFrames, lastOp, allocLog, phys, lastWrite,
             writes>>

vmVars == <<vms, hostWritesLogged, vmOps, vmLast>>

caseVars == <<cases>>

schedVars == <<current_file, tries, schedLast, skipLast>>

threadVars == <<job_active_count, job_finished_count, supervisor, poisoned>>

vars == <<orchVars, cfgVars, memVars, vmVars, caseVars, schedVars, threadVars>>

Workers == 1 .. cfg.jobs


(***************************************************************************)
(* Configurations of an orchestrator session.                              *)
(***************************************************************************)
\* crate::input::INPUT_MIN_SIZE, compared with max_input_size at fuzz.rs:264
INPUT_MIN_SIZE == 8192
\* io_config.max_file_size: 0, or the default of 128 MiB (config.rs:99)
MaxFileSizes == {0, 134217728}
\* app_config.max_input_size: 0 as AppConfig::try_from leaves it, or above INPUT_MIN_SIZE
MaxInputSizes == {0, 2 * INPUT_MIN_SIZE}
\* the byte size of the last entry of the input directory, NoSeed when it has none
SeedSizes == {NoSeed, 2, 8}
\* app_config.mutation_num: none, or a cap below the tickets of the model
MutationNums == {NoCap, MaxTickets - 2}

\* The sessions followed.  max_file_size is read at fuzz.rs:263 only, and matters with
\* a max_input_size above INPUT_MIN_SIZE; feedback_method is read by
\* compute_fuzz_mode only, behind socket_fuzzer.
Configs ==
  {c \in [jobs : 1 .. MaxJobs, minimize : BOOLEAN, socket_fuzzer : BOOLEAN,
          crash_exit : BOOLEAN, feedback_method : FeedBackMethods,
          mutation_num : MutationNums, max_file_size : MaxFileSizes,
          max_input_size : MaxInputSizes, seed : SeedSizes] :
     /\ c.max_file_size = 0 => c.max_input_size > INPUT_MIN_SIZE
     /\ c.socket_fuzzer => c.feedback_method = "SOFT"}

\* compute_fuzz_mode with the feedback method tested before socket_fuzzer
compute_fuzz_mode_FeedbackFirst(c) ==
  IF c.feedback_method # "NONE" THEN DynamicDryRun
  ELSE IF c.socket_fuzzer THEN DynamicMain
  ELSE Static

\* fuzz.rs:589  compute_fuzz_mode
compute_fuzz_mode(c) ==
  IF c.socket_fuzzer THEN DynamicMain
  ELSE IF c.feedback_method # "NONE" THEN DynamicDryRun
  ELSE Static

\* App::get_mode / App::is_terminating: atomic loads of the two flags
get_mode == mode
is_terminating == terminating

(***************************************************************************)
(* The corpus: an ordered collection keyed by file name.                   *)
(***************************************************************************)
\* Corpus::contains
contains(c, name) == \E i \in 1 .. Len(c) : c[i].filename = name

\* add_file without the look-up: it files the input whatever the corpus holds
add_file_Always(c, count, name) ==
  [corpus |-> Append(c, [filename |-> name, idx |-> count]), count |-> count + 1]

\* Corpus::add_file: the new corpus and the new fuzz_input_count
add_file(c, count, name) ==
  IF contains(c, name)
  THEN [corpus |-> c, count |-> count]
  ELSE [corpus |-> Append(c, [filename |-> name, idx |-> count]), count |-> count + 1]

\* FuzzInput::generate_filename: the content hash, one name per content
generate_filename(content) == content

\* FuzzInput::fork: the name under which add_dynamic_input files the case's input;
\* set_dynamic_main_state swaps the synthetic input into the case for its call
ForkName(w) == IF caller[w] = "sdms" THEN DynamicZeroSize
               ELSE generate_filename(input[w])

(***************************************************************************)
(* Mutexes.                                                                *)
(***************************************************************************)
Free(l) == owner[l] = 0
Held(w) == {l \in Locks : owner[l] = w}
Acquire(l, w) == [owner EXCEPT ![l] = w]
Release(l) == [owner EXCEPT ![l] = 0]

(***************************************************************************)
(* FuzzCase::set_input_size and the static feed's size escalation.         *)
(***************************************************************************)
\* fuzz.rs:76  the new length, and whether the call panics
set_input_size(len, size, max) ==
  IF len = size THEN [len |-> len, panic |-> FALSE]
  ELSE IF size > max THEN [len |-> len, panic |-> TRUE]
  ELSE [len |-> size, panic |-> FALSE]

\* fuzz.rs:286  input_should_read_new_file, on the mode it loads
input_should_read_new_file(m, tm, len, max) ==
  IF m # DynamicDryRun
  THEN LET s == set_input_size(len, max, max)
       IN  [ret |-> TRUE, try_more |-> tm, len |-> s.len, panic |-> s.panic]
  ELSE IF ~tm
  THEN LET s == set_input_size(len, Min(StaticStartSize, max), max)
       IN  [ret |-> TRUE, try_more |-> TRUE, len |-> s.len, panic |-> s.panic]
  ELSE LET new_size == Max(len * 2, max)
           s == set_input_size(len, new_size, max)
       IN  [ret |-> FALSE, try_more |-> IF new_size = max THEN FALSE ELSE tm,
            len |-> s.len, panic |-> s.panic]

\* fuzz.rs:320  the entry fuzz_prepare_static_file ends with: the last one of
\* app.input.entries() when the directory is read, none otherwise
StaticEntry(read) == IF read THEN cfg.seed ELSE NoSeed


\* mangle::mangle_content: rewrites the data in place, the length kept
mangle_content(content) == IF content = 0 THEN {0} ELSE 1 .. NumContents

\* the content of a file read into a buffer of `len` bytes
StaticContents(len) == IF len = 0 THEN {0} ELSE 1 .. NumContents

\* the content of the corpus entry filed under `name`
ContentOf(name) == IF name = DynamicZeroSize THEN 0 ELSE name

\* the empty function
Empty == [x \in {} |-> 0]

\* the variables of a machine, when another machine runs
CaseIdle == cases = Empty

ThreadIdle ==
  /\ job_active_count = 0 /\ job_finished_count = 0
  /\ supervisor = "none" /\ poisoned = {}

SchedIdle ==
  /\ current_file = << >> /\ tries = Empty
  /\ schedLast = [op |-> "none"] /\ skipLast = [op |-> "none"]

CfgIdle ==
  /\ conf = "none" /\ dirs = "none" /\ startup = "none"
  /\ validateResult = "none" /\ startMode = "none"

MemIdle ==
  /\ memSize = 0 /\ top = 0 /\ tables = Empty /\ pte = Empty /\ okFrames = Empty
  /\ lastOp = "none" /\ allocLog = << >> /\ phys = Empty /\ lastWrite = "none"
  /\ writes = 0

\* no virtual machine exists
VmIdle ==
  /\ vms = << >>
  /\ hostWritesLogged = FALSE
  /\ vmOps = 0
  /\ vmLast = [op |-> "none"]

OrchIdle ==
  /\ cfg = "none" /\ mode = "none" /\ terminating = FALSE /\ switching_feedback = FALSE
  /\ COUNT = 0 /\ mutations_count = 0 /\ fuzz_input_count = 0 /\ crashes_count = 0
  /\ corpus = << >> /\ owner = Empty /\ pc = Empty /\ caller = Empty /\ input = Empty
  /\ dataLen = Empty /\ static_file_try_more = Empty
  /\ loopsStarted = 0 /\ begunAfterTerm = Empty /\ duplicateAdd = FALSE

(***************************************************************************)
(* The orchestrator's initial state: App::new(config, mode) and the        *)
(* workers spawned by fuzz(), each with its FuzzCase.                      *)
(***************************************************************************)
OrchInit ==
  /\ cfg \in Configs
  /\ mode = compute_fuzz_mode(cfg)
  /\ terminating = FALSE
  /\ switching_feedback = FALSE
  /\ COUNT = 0
  /\ mutations_count = 0
  /\ fuzz_input_count = 0
  /\ crashes_count = 0
  /\ corpus = << >>
  /\ owner = [l \in Locks |-> 0]
  /\ pc = [w \in Workers |-> "loop"]
  /\ caller = [w \in Workers |-> "none"]
  /\ input = [w \in Workers |-> 0]
  /\ dataLen = [w \in Workers |-> 0]
  /\ static_file_try_more = [w \in Workers |-> FALSE]
  /\ loopsStarted = 0
  /\ begunAfterTerm = [w \in Workers |-> 0]
  /\ duplicateAdd = FALSE

Goto(w, p) == pc' = [pc EXCEPT ![w] = p]

shared == <<cfg, mode, terminating, switching_feedback, COUNT, mutations_count,
            fuzz_input_count, crashes_count, corpus, owner>>
flags == <<mode, terminating, switching_feedback>>
counters == <<COUNT, mutations_count, fuzz_input_count, crashes_count>>
locals == <<caller, input, dataLen, static_file_try_more>>
ghosts == <<loopsStarted, begunAfterTerm, duplicateAdd>>
tickets == <<loopsStarted, begunAfterTerm>>

(***************************************************************************)
(* worker(): the loop of fuzz.rs:559-580.                                  *)
(***************************************************************************)
\* the cap compared with > for >=
CapReached_OffByOne(ticket) == cfg.mutation_num # NoCap /\ ticket > cfg.mutation_num

\* fuzz.rs:562  the ticket ends the worker
CapReached(ticket) == cfg.mutation_num # NoCap /\ ticket >= cfg.mutation_num

\* fuzz.rs:560-568  take a ticket; leave on the cap, else call fuzz_loop
WorkerLoop(w) ==
  /\ pc[w] = "loop"
  /\ cfg.mutation_num = NoCap => mutations_count < MaxTickets
  /\ mutations_count' = mutations_count + 1
  /\ IF CapReached(mutations_count)
     THEN /\ Goto(w, "done")
          /\ UNCHANGED tickets
     ELSE /\ Goto(w, "fetch")
          /\ loopsStarted' = loopsStarted + 1
          /\ begunAfterTerm' =
               [begunAfterTerm EXCEPT ![w] = IF terminating THEN Min(@ + 1, 2) ELSE @]
  /\ UNCHANGED <<cfg, flags, COUNT, fuzz_input_count, crashes_count, corpus, owner, locals,
                 duplicateAdd>>

\* the test of the flag after fuzz_loop left out
LoopBreaks_Never == FALSE

\* fuzz.rs:569  the worker leaves its loop
LoopBreaks == is_terminating

\* fuzz.rs:569-571  after fuzz_loop: the termination flag
CheckTerm(w) ==
  /\ pc[w] = "check_term"
  /\ Goto(w, IF LoopBreaks THEN "done" ELSE "check_crash")
  /\ UNCHANGED <<shared, locals, ghosts>>

\* the crash test taken without looking at crash_exit
CheckCrash_AnyCrash(w) ==
  /\ pc[w] = "check_crash"
  /\ IF crashes_count > 0
     THEN terminating' = TRUE /\ Goto(w, "done")
     ELSE terminating' = terminating /\ Goto(w, "loop")
  /\ UNCHANGED <<cfg, mode, switching_feedback, counters, corpus, owner, locals, ghosts>>

\* fuzz.rs:573-579  crash_exit
CheckCrash(w) ==
  /\ pc[w] = "check_crash"
  /\ IF cfg.crash_exit /\ crashes_count > 0
     THEN terminating' = TRUE /\ Goto(w, "done")
     ELSE terminating' = terminating /\ Goto(w, "loop")
  /\ UNCHANGED <<cfg, mode, switching_feedback, counters, corpus, owner, locals, ghosts>>

\* the crash recorder, outside the orchestrator, counts a crash; the counter is
\* followed up to the first crash, the code reading only crashes_count > 0
Crash ==
  /\ crashes_count = 0
  /\ crashes_count' = crashes_count + 1
  /\ UNCHANGED <<cfg, flags, COUNT, mutations_count, fuzz_input_count, corpus, owner,
                 pc, locals, ghosts>>

(***************************************************************************)
(* fuzz_fetch_input and the static feed.                                   *)
(***************************************************************************)
\* fuzz.rs:484-485
Fetch(w) ==
  /\ pc[w] = "fetch"
  /\ Goto(w, IF get_mode = DynamicDryRun THEN "static" ELSE "fetch_mode")
  /\ UNCHANGED <<shared, locals, ghosts>>

\* fuzz.rs:317-366  fuzz_prepare_static_file(mangle = true): no entry sends the
\* worker to the barrier; else the file is read into the buffer and mangled
PrepareStatic(w) ==
  /\ pc[w] = "static"
  /\ LET r == input_should_read_new_file(get_mode, static_file_try_more[w],
                                         dataLen[w], cfg.max_input_size)
         size == Min(StaticEntry(r.ret), r.len)
     IN  IF r.panic \/ StaticEntry(r.ret) = NoSeed
         THEN /\ dataLen' = [dataLen EXCEPT ![w] = r.len]
              /\ static_file_try_more' = [static_file_try_more EXCEPT ![w] = r.try_more]
              /\ Goto(w, IF r.panic THEN "panicked" ELSE "sdms")
              /\ UNCHANGED input
         ELSE /\ dataLen' = [dataLen EXCEPT ![w] = size]
              /\ static_file_try_more' =
                   [static_file_try_more EXCEPT ![w] = r.try_more /\ ~(size < r.len)]
              /\ \E c \in StaticContents(size) : input' = [input EXCEPT ![w] = c]
              /\ Goto(w, "run")
  /\ UNCHANGED <<shared, caller, ghosts>>

\* fuzz.rs:493-518  the rest of fuzz_fetch_input: minimize_remove_files panics,
\* DynamicMain prepares a corpus input, Static is a todo!().  The three loads of the
\* mode are one step: the mode changes at most once, out of DynamicDryRun.
FetchMode(w) ==
  /\ pc[w] = "fetch_mode"
  /\ Goto(w, IF get_mode = DynamicMinimize THEN "panicked"
             ELSE IF get_mode = DynamicMain THEN "pdi"
             ELSE IF get_mode = Static THEN "panicked"
             ELSE "run")
  /\ UNCHANGED <<shared, locals, ghosts>>

(***************************************************************************)
(* set_dynamic_main_state: the barrier between the dry run and the main    *)
(* phase, fuzz.rs:216-280.                                                 *)
(***************************************************************************)
\* fuzz.rs:217-218
SdmsCount(w) ==
  /\ pc[w] = "sdms"
  /\ COUNT' = COUNT + 1
  /\ Goto(w, "sdms_mode")
  /\ UNCHANGED <<cfg, flags, mutations_count, fuzz_input_count, crashes_count, corpus,
                 owner, locals, ghosts>>

\* fuzz.rs:222-225  already switched out of the dry run
SdmsMode(w) ==
  /\ pc[w] = "sdms_mode"
  /\ Goto(w, IF get_mode # DynamicDryRun THEN "fetch_mode" ELSE "sdms_switch")
  /\ UNCHANGED <<shared, locals, ghosts>>

\* fuzz.rs:228
SdmsSwitch(w) ==
  /\ pc[w] = "sdms_switch"
  /\ switching_feedback' = TRUE
  /\ Goto(w, "sdms_wait")
  /\ UNCHANGED <<cfg, mode, terminating, counters, corpus, owner, locals, ghosts>>

\* the barrier counting the other workers only
BarrierReached_OffByOne == COUNT + 1 >= cfg.jobs

\* fuzz.rs:231  every worker has reported in
BarrierReached == COUNT = cfg.jobs

\* fuzz.rs:231-233
SdmsWait(w) ==
  /\ pc[w] = "sdms_wait"
  /\ Goto(w, IF BarrierReached THEN "sdms_clear" ELSE "sdms_term")
  /\ UNCHANGED <<shared, locals, ghosts>>

\* fuzz.rs:234-239
SdmsTerm(w) ==
  /\ pc[w] = "sdms_term"
  /\ Goto(w, IF is_terminating THEN "fetch_mode" ELSE "sdms_wait")
  /\ UNCHANGED <<shared, locals, ghosts>>

\* fuzz.rs:241-243
SdmsClear(w) ==
  /\ pc[w] = "sdms_clear"
  /\ switching_feedback' = FALSE
  /\ Goto(w, IF cfg.minimize THEN "sdms_setmin" ELSE "sdms_empty")
  /\ UNCHANGED <<cfg, mode, terminating, counters, corpus, owner, locals, ghosts>>

\* the minimize branch without its return: it goes on to the main phase
SdmsSetMinimize_NoReturn(w) ==
  /\ pc[w] = "sdms_setmin"
  /\ mode' = DynamicMinimize
  /\ Goto(w, "sdms_empty")
  /\ UNCHANGED <<cfg, terminating, switching_feedback, counters, corpus, owner, locals,
                 ghosts>>

\* fuzz.rs:245-246
SdmsSetMinimize(w) ==
  /\ pc[w] = "sdms_setmin"
  /\ mode' = DynamicMinimize
  /\ Goto(w, "fetch_mode")
  /\ UNCHANGED <<cfg, terminating, switching_feedback, counters, corpus, owner, locals,
                 ghosts>>

\* fuzz.rs:261-276  after the synthetic input: the maximum input size, which panics
AfterEmpty ==
  IF cfg.max_file_size = 0 /\ cfg.max_input_size > INPUT_MIN_SIZE
  THEN "panicked" ELSE "sdms_setmain"

\* the synthetic input filed whatever the dry run added
SdmsEmpty_Always(w) ==
  /\ pc[w] = "sdms_empty"
  /\ caller' = [caller EXCEPT ![w] = "sdms"]
  /\ Goto(w, "adi_write")
  /\ UNCHANGED <<shared, input, dataLen, static_file_try_more, ghosts>>

\* fuzz.rs:253-260  no input was added: file the synthetic empty input
SdmsEmpty(w) ==
  /\ pc[w] = "sdms_empty"
  /\ IF fuzz_input_count = 0
     THEN /\ caller' = [caller EXCEPT ![w] = "sdms"]
          /\ Goto(w, "adi_write")
     ELSE /\ Goto(w, AfterEmpty)
          /\ UNCHANGED caller
  /\ UNCHANGED <<shared, input, dataLen, static_file_try_more, ghosts>>

\* fuzz.rs:278-279
SdmsSetMain(w) ==
  /\ pc[w] = "sdms_setmain"
  /\ mode' = DynamicMain
  /\ Goto(w, "fetch_mode")
  /\ UNCHANGED <<cfg, terminating, switching_feedback, counters, corpus, owner, locals,
                 ghosts>>

(***************************************************************************)
(* add_dynamic_input, fuzz.rs:169-214.                                     *)
(***************************************************************************)
\* fuzz.rs:170-192  the maximum coverage and the maximum size, each under its own
\* mutex, then write_cov_file (unless this is the socket fuzzer)
AdiWrite(w) ==
  /\ pc[w] = "adi_write"
  /\ Free("max_cov") /\ Free("fuzz_input_max_size")
  /\ Goto(w, "adi_corpus")
  /\ UNCHANGED <<shared, locals, ghosts>>

\* fuzz.rs:194-213  corpus.add_file under the corpus mutex, then return
AdiCorpus(w) ==
  /\ pc[w] = "adi_corpus"
  /\ Free("corpus")
  /\ LET r == add_file(corpus, fuzz_input_count, ForkName(w))
     IN  corpus' = r.corpus /\ fuzz_input_count' = r.count
  /\ duplicateAdd' = (duplicateAdd \/ contains(corpus, ForkName(w)))
  /\ caller' = [caller EXCEPT ![w] = "none"]
  /\ Goto(w, IF caller[w] = "run" THEN "run_end" ELSE AfterEmpty)
  /\ UNCHANGED <<cfg, flags, COUNT, mutations_count, crashes_count, owner, input, dataLen,
                 static_file_try_more, tickets>>

(***************************************************************************)
(* prepare_dynamic_input, fuzz.rs:424-481.                                 *)
(***************************************************************************)
\* fuzz.rs:425-427  unreachable!() on an empty corpus
Pdi(w) ==
  /\ pc[w] = "pdi"
  /\ Goto(w, IF fuzz_input_count = 0 THEN "panicked" ELSE "pdi_lock")
  /\ UNCHANGED <<shared, locals, ghosts>>

\* fuzz.rs:428
PdiLock(w) ==
  /\ pc[w] = "pdi_lock"
  /\ Free("corpus")
  /\ owner' = Acquire("corpus", w)
  /\ Goto(w, "pdi_select")
  /\ UNCHANGED <<cfg, flags, counters, corpus, locals, ghosts>>

\* fuzz.rs:429-474  pick an entry under the corpus and the cursor mutexes, copy it
\* into the case, drop the corpus mutex
PdiSelect(w) ==
  /\ pc[w] = "pdi_select"
  /\ Free("current_file")
  /\ IF Len(corpus) = 0
     THEN /\ Goto(w, "panicked")
          /\ UNCHANGED <<input, owner>>
     ELSE /\ \E i \in 1 .. Len(corpus) :
               input' = [input EXCEPT ![w] = ContentOf(corpus[i].filename)]
          /\ owner' = Release("corpus")
          /\ Goto(w, "pdi_mangle")
  /\ UNCHANGED <<cfg, flags, counters, corpus, caller, dataLen, static_file_try_more,
                 ghosts>>

\* fuzz.rs:476-480
PdiMangle(w) ==
  /\ pc[w] = "pdi_mangle"
  /\ \E c \in mangle_content(input[w]) : input' = [input EXCEPT ![w] = c]
  /\ Goto(w, "run")
  /\ UNCHANGED <<shared, caller, dataLen, static_file_try_more, ghosts>>

(***************************************************************************)
(* FuzzCase::run, fuzz.rs:91-147.                                          *)
(***************************************************************************)
\* fuzz.rs:92-120  reset the fork from the template under the exe mutex, write the
\* input, run the guest (it hits coverage points or none), then take the guard on
\* max_fuzz_run_time_ms, which is bound to a local of run
Run(w) ==
  /\ pc[w] = "run"
  /\ Free("exe")
  /\ Free("max_fuzz_run_time_ms")
  /\ owner' = Acquire("max_fuzz_run_time_ms", w)
  /\ \E coverage_count \in {0, 1} :
       Goto(w, IF coverage_count > 0 THEN "run_contains" ELSE "run_end")
  /\ UNCHANGED <<cfg, flags, counters, corpus, locals, ghosts>>

\* the look-up whose corpus guard is not dropped before add_dynamic_input
RunContains_KeepCorpus(w) ==
  /\ pc[w] = "run_contains"
  /\ Free("feedback") /\ Free("corpus")
  /\ IF ~contains(corpus, generate_filename(input[w]))
     THEN /\ caller' = [caller EXCEPT ![w] = "run"]
          /\ owner' = Acquire("corpus", w)
          /\ Goto(w, "adi_write")
     ELSE /\ caller' = caller
          /\ owner' = owner
          /\ Goto(w, "run_end")
  /\ UNCHANGED <<cfg, flags, counters, corpus, input, dataLen, static_file_try_more,
                 ghosts>>

\* fuzz.rs:123-141  new coverage: is the input already in the corpus?
RunContains(w) ==
  /\ pc[w] = "run_contains"
  /\ Free("feedback") /\ Free("corpus")
  /\ IF ~contains(corpus, generate_filename(input[w]))
     THEN caller' = [caller EXCEPT ![w] = "run"] /\ Goto(w, "adi_write")
     ELSE caller' = caller /\ Goto(w, "run_end")
  /\ UNCHANGED <<shared, input, dataLen, static_file_try_more, ghosts>>

\* fuzz.rs:146-147  the guards of run go out of scope
RunEnd(w) ==
  /\ pc[w] = "run_end"
  /\ owner' = Release("max_fuzz_run_time_ms")
  /\ Goto(w, "check_term")
  /\ UNCHANGED <<cfg, flags, counters, corpus, locals, ghosts>>

(***************************************************************************)
(* The orchestrator.                                                       *)
(***************************************************************************)
OrchNext ==
  \/ \E w \in Workers : WorkerLoop(w) /\ UNCHANGED <<cfgVars, memVars, vmVars, caseVars, schedVars, threadVars>>
  \/ \E w \in Workers : CheckTerm(w) /\ UNCHANGED <<cfgVars, memVars, vmVars, caseVars, schedVars, threadVars>>
  \/ \E w \in Workers : CheckCrash(w) /\ UNCHANGED <<cfgVars, memVars, vmVars, caseVars, schedVars, threadVars>>
  \/ \E w \in Workers : Fetch(w) /\ UNCHANGED <<cfgVars, memVars, vmVars, caseVars, schedVars, threadVars>>
  \/ \E w \in Workers : PrepareStatic(w) /\ UNCHANGED <<cfgVars, memVars, vmVars, caseVars, schedVars, threadVars>>
  \/ \E w \in Workers : FetchMode(w) /\ UNCHANGED <<cfgVars, memVars, vmVars, caseVars, schedVars, threadVars>>
  \/ \E w \in Workers : SdmsCount(w) /\ UNCHANGED <<cfgVars, memVars, vmVars, caseVars, schedVars, threadVars>>
  \/ \E w \in Workers : SdmsMode(w) /\ UNCHANGED <<cfgVars, memVars, vmVars, caseVars, schedVars, threadVars>>
  \/ \E w \in Workers : SdmsSwitch(w) /\ UNCHANGED <<cfgVars, memVars, vmVars, caseVars, schedVars, threadVars>>
  \/ \E w \in Workers : SdmsWait(w) /\ UNCHANGED <<cfgVars, memVars, vmVars, caseVars, schedVars, threadVars>>
  \/ \E w \in Workers : SdmsTerm(w) /\ UNCHANGED <<cfgVars, memVars, vmVars, caseVars, schedVars, threadVars>>
  \/ \E w \in Workers : SdmsClear(w) /\ UNCHANGED <<cfgVars, memVars, vmVars, caseVars, schedVars, threadVars>>
  \/ \E w \in Workers : SdmsSetMinimize(w) /\ UNCHANGED <<cfgVars, memVars, vmVars, caseVars, schedVars, threadVars>>
  \/ \E w \in Workers : SdmsEmpty(w) /\ UNCHANGED <<cfgVars, memVars, vmVars, caseVars, schedVars, threadVars>>
  \/ \E w \in Workers : SdmsSetMain(w) /\ UNCHANGED <<cfgVars, memVars, vmVars, caseVars, schedVars, threadVars>>
  \/ \E w \in Workers : AdiWrite(w) /\ UNCHANGED <<cfgVars, memVars, vmVars, caseVars, schedVars, threadVars>>
  \/ \E w \in Workers : AdiCorpus(w) /\ UNCHANGED <<cfgVars, memVars, vmVars, caseVars, schedVars, threadVars>>
  \/ \E w \in Workers : Pdi(w) /\ UNCHANGED <<cfgVars, memVars, vmVars, caseVars, schedVars, threadVars>>
  \/ \E w \in Workers : PdiLock(w) /\ UNCHANGED <<cfgVars, memVars, vmVars, caseVars, schedVars, threadVars>>
  \/ \E w \in Workers : PdiSelect(w) /\ UNCHANGED <<cfgVars, memVars, vmVars, caseVars, schedVars, threadVars>>
  \/ \E w \in Workers : PdiMangle(w) /\ UNCHANGED <<cfgVars, memVars, vmVars, caseVars, schedVars, threadVars>>
  \/ \E w \in Workers : Run(w) /\ UNCHANGED <<cfgVars, memVars, vmVars, caseVars, schedVars, threadVars>>
  \/ \E w \in Workers : RunContains(w) /\ UNCHANGED <<cfgVars, memVars, vmVars, caseVars, schedVars, threadVars>>
  \/ \E w \in Workers : RunEnd(w) /\ UNCHANGED <<cfgVars, memVars, vmVars, caseVars, schedVars, threadVars>>
  \/ Crash /\ UNCHANGED <<cfgVars, memVars, vmVars, caseVars, schedVars, threadVars>>

Init == OrchInit /\ CfgIdle /\ MemIdle /\ VmIdle /\ CaseIdle /\ SchedIdle /\ ThreadIdle
Next == OrchNext
Spec == Init /\ [][Next]_vars

(***************************************************************************)
(* The orchestrator on sessions with a small max_input_size: the static    *)
(* feed's sizes (fuzz.rs:286-315) around the 4 bytes it starts with.       *)
(***************************************************************************)
\* app_config.max_input_size below, between and at twice the start size
FeedInputSizes == {StaticStartSize - 1, StaticStartSize + 2, 2 * StaticStartSize}

\* the sessions of Configs with these sizes; max_file_size is the default
FeedConfigs ==
  {c \in [jobs : 1 .. MaxJobs, minimize : BOOLEAN, socket_fuzzer : BOOLEAN,
          crash_exit : BOOLEAN, feedback_method : FeedBackMethods,
          mutation_num : MutationNums, max_file_size : {134217728},
          max_input_size : FeedInputSizes, seed : SeedSizes] :
     c.socket_fuzzer => c.feedback_method = "SOFT"}

\* fuzz.rs:644-669  the start of such a session
FeedInit ==
  /\ cfg \in FeedConfigs
  /\ mode = compute_fuzz_mode(cfg)
  /\ terminating = FALSE
  /\ switching_feedback = FALSE
  /\ COUNT = 0
  /\ mutations_count = 0
  /\ fuzz_input_count = 0
  /\ crashes_count = 0
  /\ corpus = << >>
  /\ owner = [l \in Locks |-> 0]
  /\ pc = [w \in Workers |-> "loop"]
  /\ caller = [w \in Workers |-> "none"]
  /\ input = [w \in Workers |-> 0]
  /\ dataLen = [w \in Workers |-> 0]
  /\ static_file_try_more = [w \in Workers |-> FALSE]
  /\ loopsStarted = 0
  /\ begunAfterTerm = [w \in Workers |-> 0]
  /\ duplicateAdd = FALSE

InitFeed == FeedInit /\ CfgIdle /\ MemIdle /\ VmIdle /\ CaseIdle /\ SchedIdle /\ ThreadIdle

SpecFeed == InitFeed /\ [][Next]_vars

(***************************************************************************)
(* Properties of the orchestrator.                                         *)
(***************************************************************************)
StartsInDryRun == compute_fuzz_mode(cfg) = DynamicDryRun
InSyntheticAdd(w) == pc[w] \in {"adi_write", "adi_corpus"} /\ caller[w] = "sdms"
\* the worker is at file I/O or at the mutator: the static file's read and mangle,
\* the mangle of a corpus input, write_cov_file
AtIO(w) ==
  \/ pc[w] = "static"
  \/ pc[w] = "pdi_mangle"
  \/ pc[w] = "adi_write" /\ ~cfg.socket_fuzzer

\* C1: in a session that starts in DynamicDryRun, whenever the mode is DynamicMain
\* the barrier counter equals jobs: every worker has incremented it before any
\* worker can observe DynamicMain.
C1_BarrierBeforeMain ==
  (StartsInDryRun /\ mode = DynamicMain) => COUNT = cfg.jobs

C1_Witness ==
  /\ StartsInDryRun /\ cfg.jobs >= 2 /\ mode = DynamicMain /\ COUNT = cfg.jobs
  /\ \E w \in Workers : pc[w] = "pdi"

\* C2 (as claimed): after the barrier a worker at prepare_dynamic_input finds
\* fuzz_input_count >= 1, and every worker's insertion of the synthetic input is
\* completed before any worker has set the mode to DynamicMain.
C2_SyntheticBeforeMain ==
  StartsInDryRun =>
    /\ \A w \in Workers : pc[w] = "pdi" => fuzz_input_count >= 1
    /\ mode = DynamicMain => \A w \in Workers : ~InSyntheticAdd(w)

C4_ModeForward ==
  [][mode' # mode =>
       /\ mode = DynamicDryRun
       /\ mode' = (IF cfg.minimize THEN DynamicMinimize ELSE DynamicMain)
       /\ COUNT = cfg.jobs]_vars

C4_Witness ==
  /\ cfg.jobs >= 2
  /\ \/ mode = DynamicMain /\ \E w \in Workers : pc[w] = "sdms_setmain"
     \/ mode = DynamicMinimize /\ \E w \in Workers : pc[w] = "sdms_setmin"

\* C5 (as claimed): a worker at file I/O or at the mutator holds none of the shared
\* mutexes.
C5_NoLockAcrossIO ==
  \A w \in Workers : AtIO(w) => Held(w) = {}

\* C6 (as claimed): no worker begins a fuzz_loop iteration while the termination
\* flag is set.
C6_NoLoopAfterTermination ==
  [][\A w \in Workers : (pc[w] = "loop" /\ pc'[w] = "fetch") => ~terminating]_vars

\* C6 (amended): the flag is checked after each fuzz_loop, not before it: a worker
\* that finds the flag set there leaves its loop, so each worker begins at most one
\* fuzz_loop iteration after the flag was set; and the flag is never cleared.
C6_TerminationCheckedAfterLoop ==
  /\ [](\A w \in Workers : begunAfterTerm[w] <= 1)
  /\ [][/\ terminating => terminating'
        /\ \A w \in Workers :
             (pc[w] = "check_term" /\ terminating) => pc'[w] \in {"check_term", "done"}]_vars

C6_Witness ==
  \E w \in Workers : begunAfterTerm[w] = 1 /\ pc[w] = "done"

Paths == {"in", "out"}

DirStates == {"exists", "missing", "blocked"}

\* config.rs:189  jobs as parsed from the command line
JobsChoices == {0, 1, MaxJobs, MAX_JOBS - 1, MAX_JOBS, MAX_JOBS + 1}

\* config.rs:204  timeout as parsed from the command line
Timeouts == {0, 5}

\* config.rs:76-111, 183-213  the parsed Config; output_dir defaults to input_dir,
\* crash_dir and cov_dir are both read from the crashdir option
ParsedConfigs ==
  {c \in [jobs : JobsChoices, socket_fuzzer : BOOLEAN, feedback_method : FeedBackMethods,
          timeout : Timeouts,
          input_dir : {"in"}, output_dir : Paths, crash_dir : Paths, cov_dir : Paths] :
     c.crash_dir = c.cov_dir}

\* config.rs:123  ExeConfig::validate
ExeConfig_validate == "Ok"

\* config.rs:163  AppConfig::validate: the result and the config it leaves
AppConfig_validate(c) ==
  LET c1 == IF c.socket_fuzzer THEN [c EXCEPT !.timeout = 0] ELSE c
  IN  IF c1.jobs = 0 THEN [res |-> "Err", conf |-> c1]
      ELSE IF c1.jobs >= MAX_JOBS THEN [res |-> "Err", conf |-> c1]
      ELSE [res |-> "Ok", conf |-> c1]

\* config.rs:43  IOConfig::validate: each directory in turn is created when missing
RECURSIVE CreateDirs(_, _)
CreateDirs(paths, d) ==
  IF paths = << >> THEN [res |-> "Ok", dirs |-> d]
  ELSE LET path == Head(paths)
       IN  IF d[path] = "exists" THEN CreateDirs(Tail(paths), d)
           ELSE IF d[path] = "blocked" THEN [res |-> "Err", dirs |-> d]
           ELSE CreateDirs(Tail(paths), [d EXCEPT ![path] = "exists"])

IOConfig_validate(c, d) ==
  CreateDirs(<<c.input_dir, c.output_dir, c.crash_dir, c.cov_dir>>, d)

\* config.rs:227  Config::validate: the results of the first two calls are dropped
Config_validate(c, d) ==
  LET exe == ExeConfig_validate
      app == AppConfig_validate(c)
      io  == IOConfig_validate(app.conf, d)
  IN  [res |-> io.res, conf |-> app.conf, dirs |-> io.dirs]

CfgInit ==
  /\ conf \in ParsedConfigs
  /\ dirs \in [Paths -> DirStates]
  /\ startup = "parsed"
  /\ validateResult = "none"
  /\ startMode = "none"

\* main: config.validate()
Validate ==
  /\ startup = "parsed"
  /\ LET v == Config_validate(conf, dirs)
     IN  /\ validateResult' = v.res
         /\ conf' = v.conf
         /\ dirs' = v.dirs
  /\ startup' = "validated"
  /\ UNCHANGED startMode

\* main: a validation error is fatal
ExitOnError ==
  /\ startup = "validated"
  /\ validateResult = "Err"
  /\ startup' = "exited"
  /\ UNCHANGED <<conf, dirs, validateResult, startMode>>

\* fuzz.rs:644  fuzz(config): the initial mode is computed and the App created
StartFuzz ==
  /\ startup = "validated"
  /\ validateResult = "Ok"
  /\ startMode' = compute_fuzz_mode(conf)
  /\ startup' = "fuzzing"
  /\ UNCHANGED <<conf, dirs, validateResult>>

CfgNext ==
  \/ Validate /\ UNCHANGED <<orchVars, memVars, vmVars, caseVars, schedVars, threadVars>>
  \/ ExitOnError /\ UNCHANGED <<orchVars, memVars, vmVars, caseVars, schedVars, threadVars>>
  \/ StartFuzz /\ UNCHANGED <<orchVars, memVars, vmVars, caseVars, schedVars, threadVars>>

InitCfg == CfgInit /\ OrchIdle /\ MemIdle /\ VmIdle /\ CaseIdle /\ SchedIdle /\ ThreadIdle

SpecCfg == InitCfg /\ [][CfgNext]_vars

\* C8: the initial mode is DynamicMain when socket_fuzzer is set, whatever the
\* feedback method; otherwise DynamicDryRun when a feedback method is enabled;
\* otherwise Static; and DynamicMinimize is never the initial mode.
C8_InitialMode ==
  startup = "fuzzing" =>
    /\ conf.socket_fuzzer => startMode = DynamicMain
    /\ (~conf.socket_fuzzer /\ conf.feedback_method # "NONE") => startMode = DynamicDryRun
    /\ (~conf.socket_fuzzer /\ conf.feedback_method = "NONE") => startMode = Static
    /\ startMode # DynamicMinimize

C8_Witness ==
  /\ startup = "fuzzing"
  /\ conf.socket_fuzzer
  /\ conf.feedback_method = "NONE"
  /\ startMode = DynamicMain

JobsInRange == 1 <= conf.jobs /\ conf.jobs < MAX_JOBS

DirsValid == \A path \in Paths : dirs[path] = "exists"

\* C9: Config::validate returns an error whenever jobs = 0 or jobs >= 1024 and
\* succeeds for 1 <= jobs < 1024 when the directories are valid; no fuzzing
\* session is started with jobs outside 1 .. 1023.
C9_JobsValidated ==
  /\ (startup # "parsed" /\ ~JobsInRange) => validateResult = "Err"
  /\ (startup # "parsed" /\ JobsInRange /\ DirsValid) => validateResult = "Ok"
  /\ startup = "fuzzing" => JobsInRange

(***************************************************************************)
(* Guest memory: a bump allocator of frames over one arena, and four-level *)
(* page tables kept in frames of that arena.  A table is named by the path *)
(* of indices that leads to it from the page directory (the empty path).   *)
(* Addresses and sizes are in bytes.  Page permissions are left out: they  *)
(* are written to the entries and never read back by the memory manager.   *)
(***************************************************************************)

\* the largest arena, in frames
MaxFrames == 7

\* the largest mmap request, in pages
MaxMapPages == 2

\* memory.rs:217
PAGE_SIZE == 4096

\* paging: entries of one page table (x86-64 four-level paging)
ENTRY_COUNT == 512

\* memory.rs:286  Option::None for a frame address
None == -1

\* memory.rs:221  memory_size handed to VMMemory::new: whole pages, and one size
\* that is not a multiple of the page size
MemorySizes == {k * PAGE_SIZE : k \in 1 .. MaxFrames} \cup {PAGE_SIZE + 1}

\* bits: Alignement::align_power2, the size rounded up to a multiple of align
align_power2(size, align) == ((size + align - 1) \div align) * align

\* the addresses mmap is called on, all below 2 GiB: the two tests' addresses,
\* neighbours within one table and across two tables, an address under another
\* third-level table, and one unaligned address
MapAddrs ==
  {PAGE_SIZE, 2 * PAGE_SIZE, (ENTRY_COUNT - 1) * PAGE_SIZE, ENTRY_COUNT * PAGE_SIZE,
   4919 * PAGE_SIZE, ENTRY_COUNT * ENTRY_COUNT * PAGE_SIZE, PAGE_SIZE + 1}

MapSizes == {k * PAGE_SIZE : k \in 0 .. MaxMapPages}

\* paging: VirtAddr::aligned and the four table indices of an address
aligned(addr) == addr % PAGE_SIZE = 0

p1_index(addr) == (addr \div PAGE_SIZE) % ENTRY_COUNT
p2_index(addr) == ((addr \div PAGE_SIZE) \div ENTRY_COUNT) % ENTRY_COUNT
p3_index(addr) == ((addr \div PAGE_SIZE) \div (ENTRY_COUNT * ENTRY_COUNT)) % ENTRY_COUNT
p4_index(addr) ==
  ((addr \div PAGE_SIZE) \div (ENTRY_COUNT * ENTRY_COUNT * ENTRY_COUNT)) % ENTRY_COUNT

\* the page an address lies in
PageOf(addr) == addr - (addr % PAGE_SIZE)

\* the tables on the way to an address, below the page directory
P3Path(addr) == <<p4_index(addr)>>
P2Path(addr) == <<p4_index(addr), p3_index(addr)>>
P1Path(addr) == <<p4_index(addr), p3_index(addr), p2_index(addr)>>

\* paging: VirtRange::new(start, end), the pages from the page of start up to end,
\* in order
VirtRange(start, end) ==
  [i \in 1 .. ((end - PageOf(start) + PAGE_SIZE - 1) \div PAGE_SIZE) |->
     PageOf(start) + (i - 1) * PAGE_SIZE]

Range(seq) == {seq[i] : i \in 1 .. Len(seq)}

\* the memory manager's state as one value; failed is set when a table could not
\* be allocated, log lists the frames handed out
Mem == [size |-> memSize, top |-> top, tables |-> tables, pte |-> pte, phys |-> phys,
        log |-> allocLog, failed |-> FALSE]

\* allocate_frame with the exhaustion test one frame late
allocate_frame_OffByOne(m) ==
  IF m.top > m.size THEN [frame |-> None, m |-> m]
  ELSE [frame |-> m.top,
        m |-> [m EXCEPT !.top = m.top + PAGE_SIZE, !.log = Append(m.log, m.top)]]

\* memory.rs:185  allocate_frame
allocate_frame(m) ==
  IF m.top >= m.size THEN [frame |-> None, m |-> m]
  ELSE [frame |-> m.top,
        m |-> [m EXCEPT !.top = m.top + PAGE_SIZE, !.log = Append(m.log, m.top)]]

\* memory.rs:200  deallocate_frame: the frame is not taken back
deallocate_frame(m, frame_address) == m

\* paging: PageTable::next_table_create, which returns the table at path and
\* allocates it when absent; it has no error to return when the arena is full
next_table_create(m, path) ==
  IF m.failed \/ path \in DOMAIN m.tables THEN m
  ELSE LET a == allocate_frame(m)
       IN  IF a.frame = None THEN [m EXCEPT !.failed = TRUE]
           ELSE [a.m EXCEPT !.tables = (path :> a.frame) @@ a.m.tables]

\* paging: PageTableEntry::unused on the terminal entry of an address
unused(m, addr) == PageOf(addr) \notin DOMAIN m.pte

\* map_page without the test of the terminal entry
map_page_NoCollisionCheck(m, addr) ==
  LET m3 == next_table_create(next_table_create(next_table_create(m,
               P3Path(addr)), P2Path(addr)), P1Path(addr))
      a == allocate_frame(m3)
  IN  IF m3.failed THEN [res |-> "Panic", err_addr |-> 0, m |-> m3]
      ELSE IF a.frame = None THEN [res |-> "OutOfMemory", err_addr |-> 0, m |-> m3]
      ELSE [res |-> "Ok", err_addr |-> 0,
            m |-> [a.m EXCEPT !.pte = (addr :> a.frame) @@ a.m.pte]]

\* memory.rs:243  map_page
map_page(m, addr) ==
  LET m3 == next_table_create(next_table_create(next_table_create(m,
               P3Path(addr)), P2Path(addr)), P1Path(addr))
      a == allocate_frame(m3)
  IN  IF m3.failed THEN [res |-> "Panic", err_addr |-> 0, m |-> m3]
      ELSE IF ~unused(m3, addr)
        THEN [res |-> "AddressAlreadyMapped", err_addr |-> addr, m |-> m3]
      ELSE IF a.frame = None THEN [res |-> "OutOfMemory", err_addr |-> 0, m |-> m3]
      ELSE [res |-> "Ok", err_addr |-> 0,
            m |-> [a.m EXCEPT !.pte = (addr :> a.frame) @@ a.m.pte]]

\* memory.rs:278  the loop of mmap: the first page that fails ends it
RECURSIVE MapPages(_, _)
MapPages(m, pages) ==
  IF pages = << >> THEN [res |-> "Ok", err_addr |-> 0, m |-> m]
  ELSE LET r == map_page(m, Head(pages))
       IN  IF r.res # "Ok" THEN r ELSE MapPages(r.m, Tail(pages))

\* memory.rs:269  mmap
mmap(m, addr, size) ==
  IF ~aligned(addr) THEN [res |-> "Panic", err_addr |-> 0, m |-> m]
  ELSE MapPages(m, VirtRange(addr, addr + size))

\* memory.rs:286  get_page_pa
get_page_pa(m, address) ==
  IF /\ P3Path(address) \in DOMAIN m.tables
     /\ P2Path(address) \in DOMAIN m.tables
     /\ P1Path(address) \in DOMAIN m.tables
     /\ PageOf(address) \in DOMAIN m.pte
  THEN m.pte[PageOf(address)]
  ELSE None

\* memory.rs:296  is_mapped
is_mapped(m, address) == get_page_pa(m, address) # None

\* the byte of the arena at a physical address: phys holds the bytes that were
\* written, and the arena starts out zeroed
ByteAt(m, pa) == IF pa \in DOMAIN m.phys THEN m.phys[pa] ELSE 0

\* memory.rs:155  VMPhysMem::read, into the slice output
pmem_read(m, pa, output) ==
  IF pa + Len(output) > m.size THEN [res |-> "PhysReadOutOfBounds", out |-> output]
  ELSE LET written == DOMAIN m.phys
       IN  [res |-> "Ok",
            out |-> [i \in 1 .. Len(output) |->
                       IF pa + i - 1 \in written THEN m.phys[pa + i - 1] ELSE 0]]

\* the arena after bytes are copied to pa
Copied(m, pa, bytes) ==
  [a \in DOMAIN m.phys \cup (pa .. pa + Len(bytes) - 1) |->
     IF pa <= a /\ a < pa + Len(bytes) THEN bytes[a - pa + 1] ELSE m.phys[a]]

\* VMPhysMem::write without the bounds test
pmem_write_Unchecked(m, pa, bytes) ==
  [res |-> "Ok", m |-> [m EXCEPT !.phys = Copied(m, pa, bytes)]]

\* memory.rs:168  VMPhysMem::write
pmem_write(m, pa, bytes) ==
  IF pa + Len(bytes) > m.size THEN [res |-> "PhysWriteOutOfBounds", m |-> m]
  ELSE [res |-> "Ok", m |-> [m EXCEPT !.phys = Copied(m, pa, bytes)]]

\* memory.rs:311-332  the loop of read: index bytes are copied so far, the next
\* page is read from page_off on
RECURSIVE ReadPages(_, _, _, _, _)
ReadPages(m, pages, index, page_off, output) ==
  IF pages = << >> THEN [res |-> "Ok", err_addr |-> 0, out |-> output]
  ELSE LET pa == get_page_pa(m, Head(pages))
           remaining_bytes == Len(output) - index
           page_bytes == PAGE_SIZE - page_off
           bytes_to_copy == Min(remaining_bytes, page_bytes)
           r == pmem_read(m, pa + page_off, SubSeq(output, index + 1, index + bytes_to_copy))
       IN  IF pa = None
             THEN [res |-> "AddressUnmapped", err_addr |-> Head(pages), out |-> output]
           ELSE IF r.res # "Ok" THEN [res |-> r.res, err_addr |-> pa + page_off, out |-> output]
           ELSE ReadPages(m, Tail(pages), index + bytes_to_copy, 0,
                          SubSeq(output, 1, index) \o r.out
                            \o SubSeq(output, index + bytes_to_copy + 1, Len(output)))

\* read that starts every page at its first byte
read_PageStart(m, addr, output) ==
  ReadPages(m, VirtRange(addr, addr + Len(output)), 0, 0, output)

\* memory.rs:301  read
read(m, addr, output) ==
  ReadPages(m, VirtRange(addr, addr + Len(output)), 0, addr % PAGE_SIZE, output)

\* memory.rs:346-365  the loop of write
RECURSIVE WritePages(_, _, _, _, _)
WritePages(m, pages, index, page_off, bytes) ==
  IF pages = << >> THEN [res |-> "Ok", err_addr |-> 0, m |-> m]
  ELSE LET pa == get_page_pa(m, Head(pages))
           remaining_bytes == Len(bytes) - index
           page_bytes == PAGE_SIZE - page_off
           bytes_to_copy == Min(remaining_bytes, page_bytes)
           r == pmem_write(m, pa + page_off, SubSeq(bytes, index + 1, index + bytes_to_copy))
       IN  IF pa = None
             THEN [res |-> "AddressUnmapped", err_addr |-> Head(pages), m |-> m]
           ELSE IF r.res # "Ok" THEN [res |-> r.res, err_addr |-> pa + page_off, m |-> m]
           ELSE WritePages(r.m, Tail(pages), index + bytes_to_copy, 0, bytes)

\* memory.rs:336  write
write(m, addr, bytes) ==
  WritePages(m, VirtRange(addr, addr + Len(bytes)), 0, addr % PAGE_SIZE, bytes)

\* memory.rs:221  VMMemory::new: the page directory takes the first frame
MemInit ==
  /\ \E memory_size \in MemorySizes : memSize = align_power2(memory_size, PAGE_SIZE)
  /\ top = PAGE_SIZE
  /\ allocLog = <<0>>
  /\ tables = (<< >> :> 0)
  /\ pte = Empty
  /\ phys = Empty
  /\ lastWrite = [res |-> "none"]
  /\ writes = 0
  /\ okFrames = Empty
  /\ lastOp = [op |-> "new", addr |-> 0, size |-> 0, res |-> "Ok", err_addr |-> 0,
               preMapped |-> {}, preOk |-> {}]

\* memory.rs:269  one call of mmap
Mmap(addr, size) ==
  /\ lastOp.res # "Panic"
  /\ LET r == mmap(Mem, addr, size)
         pages == Range(VirtRange(addr, addr + size))
     IN  /\ top' = r.m.top
         /\ tables' = r.m.tables
         /\ pte' = r.m.pte
         /\ okFrames' = IF r.res = "Ok"
                        THEN okFrames @@ [page \in pages |-> get_page_pa(r.m, page)]
                        ELSE okFrames
         /\ lastOp' = [op |-> "mmap", addr |-> addr, size |-> size, res |-> r.res,
                       err_addr |-> r.err_addr,
                       preMapped |-> {page \in pages : is_mapped(Mem, page)},
                       preOk |-> pages \cap DOMAIN okFrames]
         /\ allocLog' = r.m.log
  /\ UNCHANGED <<memSize, phys, lastWrite, writes>>

\* memory.rs:185  one call of pmem.allocate_frame
AllocateFrame ==
  /\ lastOp.res # "Panic"
  /\ LET a == allocate_frame(Mem)
     IN  /\ top' = a.m.top
         /\ allocLog' = a.m.log
         /\ lastOp' = [op |-> "allocate_frame", res |-> "Ok", frame |-> a.frame,
                       preTop |-> top]
  /\ UNCHANGED <<memSize, tables, pte, okFrames, phys, lastWrite, writes>>

\* memory.rs:200  one call of pmem.deallocate_frame on a frame handed out before
DeallocateFrame(frame_address) ==
  /\ lastOp.res # "Panic"
  /\ LET m == deallocate_frame(Mem, frame_address)
     IN  /\ top' = m.top
         /\ allocLog' = m.log
  /\ lastOp' = [op |-> "deallocate_frame", res |-> "Ok", frame |-> frame_address,
                preTop |-> top]
  /\ UNCHANGED <<memSize, tables, pte, okFrames, phys, lastWrite, writes>>

MemNext ==
  \/ \E addr \in MapAddrs, size \in MapSizes : Mmap(addr, size) /\ UNCHANGED <<orchVars, cfgVars, vmVars, caseVars, schedVars, threadVars>>
  \/ AllocateFrame /\ UNCHANGED <<orchVars, cfgVars, vmVars, caseVars, schedVars, threadVars>>
  \/ \E i \in 1 .. Len(allocLog) : DeallocateFrame(allocLog[i]) /\ UNCHANGED <<orchVars, cfgVars, vmVars, caseVars, schedVars, threadVars>>

InitMem == MemInit /\ OrchIdle /\ CfgIdle /\ VmIdle /\ CaseIdle /\ SchedIdle /\ ThreadIdle

SpecMem == InitMem /\ [][MemNext]_vars

\* the pages of the last mmap's range, in order
LastPages == VirtRange(lastOp.addr, lastOp.addr + lastOp.size)

\* the first page of the last mmap's range that was mapped before the call
FirstCollision ==
  LastPages[CHOOSE i \in 1 .. Len(LastPages) :
              /\ LastPages[i] \in lastOp.preMapped
              /\ \A j \in 1 .. i - 1 : LastPages[j] \notin lastOp.preMapped]

\* the last operation was an mmap on an aligned address whose range holds a page
\* that an earlier successful mmap has mapped
LaterOverlap ==
  /\ lastOp.op = "mmap"
  /\ aligned(lastOp.addr)
  /\ lastOp.preOk # {}

\* after a successful mmap every page of its range is mapped
MappedAfterSuccess ==
  (lastOp.op = "mmap" /\ lastOp.res = "Ok") =>
     \A page \in Range(LastPages) : is_mapped(Mem, page)

\* a page a successful mmap has mapped stays mapped to the same frame
FramesKept ==
  \A page \in DOMAIN okFrames :
     /\ okFrames[page] # None
     /\ get_page_pa(Mem, page) = okFrames[page]

\* C10: after a successful mmap on an aligned address every page of its range is
\* mapped, and any later mmap whose range holds one of these pages fails with
\* AddressAlreadyMapped carrying the address of a colliding page, the frames of
\* the mapped pages unchanged.
C10_OverlapAlreadyMapped ==
  /\ MappedAfterSuccess
  /\ FramesKept
  /\ LaterOverlap =>
       /\ lastOp.res = "AddressAlreadyMapped"
       /\ lastOp.err_addr \in lastOp.preMapped

\* C10 (amended): after a successful mmap on an aligned address every page of its
\* range is mapped and keeps its frame for good; a later mmap whose range holds
\* one of these pages never succeeds; it maps the pages of its range that come
\* before the first mapped one and then fails with AddressAlreadyMapped carrying
\* the address of that first mapped page, unless the arena runs out of frames on
\* the way, in which case it ends without AddressAlreadyMapped.
C10_OverlapFails ==
  /\ MappedAfterSuccess
  /\ FramesKept
  /\ LaterOverlap =>
       /\ lastOp.res # "Ok"
       /\ lastOp.res = "AddressAlreadyMapped" =>
            /\ lastOp.err_addr = FirstCollision
            /\ \A i \in 1 .. Len(LastPages) :
                 LastPages[i] < FirstCollision => is_mapped(Mem, LastPages[i])
       /\ lastOp.res # "AddressAlreadyMapped" =>
            /\ lastOp.res \in {"OutOfMemory", "Panic"}
            /\ top >= memSize
            /\ LastPages[1] \notin lastOp.preMapped
       /\ LastPages[1] \in lastOp.preMapped => lastOp.res = "AddressAlreadyMapped"

\* a later mmap reached a page of an earlier successful one after mapping a page
\* of its own, and another ran out of frames before reaching it
C10_Witness ==
  /\ LaterOverlap
  /\ lastOp.res = "AddressAlreadyMapped"
  /\ lastOp.err_addr # lastOp.addr
  /\ is_mapped(Mem, lastOp.addr)
  /\ lastOp.addr \notin lastOp.preMapped

C10_WitnessOutOfMemory ==
  /\ LaterOverlap
  /\ lastOp.res = "OutOfMemory"

(***************************************************************************)
(* Reads and writes of the guest memory: the virtual address space through *)
(* the page tables, and the arena directly.                                *)
(***************************************************************************)

\* the writes of one behaviour
MaxWrites == 1

\* the pages mapped for reading and writing: the tests' two neighbours
RWMapAddrs == {4919 * PAGE_SIZE, 4920 * PAGE_SIZE}

\* the ranges read and written, as <<address, length>>: the tests' four bytes
\* inside a page and four bytes across a page's end, one byte of the next page,
\* and more than a page from an unaligned address, over three pages
RWRanges ==
  {<<4919 * PAGE_SIZE + 1092, 4>>,
   <<4919 * PAGE_SIZE + PAGE_SIZE - 3, 4>>,
   <<4920 * PAGE_SIZE + 1, 1>>,
   <<4919 * PAGE_SIZE + PAGE_SIZE - 3, PAGE_SIZE + 4>>}

\* the byte strings written: each byte depends on its place and on the write
Seed == 65 + writes

Pattern(seed, len) == [i \in 1 .. len |-> (seed + i) % 256]

\* the caller's buffer before a read
InitialBuffer(len) == [i \in 1 .. len |-> 238]

\* the frames that hold page tables
TableFrames == {tables[path] : path \in DOMAIN tables}

\* the bytes of the arena are the same in two maps
SameBytes(p, q) ==
  \A a \in DOMAIN p \cup DOMAIN q :
     (IF a \in DOMAIN p THEN p[a] ELSE 0) = (IF a \in DOMAIN q THEN q[a] ELSE 0)

\* memory.rs:336  one call of write, of len bytes that depend on their place
Write(addr, len) ==
  /\ lastOp.res # "Panic"
  /\ writes < MaxWrites
  /\ \E r \in {write(Mem, addr, Pattern(Seed, len))} :
         /\ phys' = r.m.phys
         /\ lastOp' = [op |-> "write", addr |-> addr, len |-> len, res |-> r.res,
                       err_addr |-> r.err_addr, changed |-> ~SameBytes(phys, r.m.phys)]
         /\ lastWrite' = [res |-> r.res, addr |-> addr, len |-> len, seed |-> Seed]
  /\ writes' = writes + 1
  /\ UNCHANGED <<memSize, top, tables, pte, okFrames, allocLog>>

\* memory.rs:301  one call of read, into a buffer of len bytes
Read(addr, len) ==
  /\ lastOp.res # "Panic"
  /\ \E r \in {read(Mem, addr, InitialBuffer(len))} :
         lastOp' = [op |-> "read", addr |-> addr, len |-> len, res |-> r.res,
                    err_addr |-> r.err_addr, out |-> r.out]
  /\ UNCHANGED <<memSize, top, tables, pte, okFrames, allocLog, phys, lastWrite, writes>>

\* memory.rs:168  one call of pmem.write, on the end of the arena and outside the
\* frames that hold page tables
PhysWrite(pa, len) ==
  /\ lastOp.res # "Panic"
  /\ writes < MaxWrites
  /\ \A a \in pa .. pa + len - 1 : PageOf(a) \notin TableFrames
  /\ \E r \in {pmem_write(Mem, pa, Pattern(Seed, len))} :
         /\ phys' = r.m.phys
         /\ lastOp' = [op |-> "pmem_write", addr |-> pa, len |-> len,
                       res |-> r.res, changed |-> ~SameBytes(phys, r.m.phys)]
  /\ lastWrite' = [res |-> "none"]
  /\ writes' = writes + 1
  /\ UNCHANGED <<memSize, top, tables, pte, okFrames, allocLog>>

\* memory.rs:155  one call of pmem.read, into a buffer of len bytes
PhysRead(pa, len) ==
  /\ lastOp.res # "Panic"
  /\ \E r \in {pmem_read(Mem, pa, InitialBuffer(len))} :
         lastOp' = [op |-> "pmem_read", addr |-> pa, len |-> len, res |-> r.res,
                    out |-> r.out]
  /\ UNCHANGED <<memSize, top, tables, pte, okFrames, allocLog, phys, lastWrite, writes>>

\* the ranges of the arena read and written directly, as <<offset, length>>:
\* its last four bytes, four bytes across its end, and one byte past its end
PhysRanges == {<<memSize - 4, 4>>, <<memSize - 1, 4>>, <<memSize, 1>>}

RWNext ==
  \/ \E addr \in RWMapAddrs, size \in MapSizes \ {0} :
       Mmap(addr, size) /\ UNCHANGED <<orchVars, cfgVars, vmVars, caseVars, schedVars, threadVars>>
  \/ \E r \in RWRanges : Write(r[1], r[2]) /\ UNCHANGED <<orchVars, cfgVars, vmVars, caseVars, schedVars, threadVars>>
  \/ \E r \in RWRanges : Read(r[1], r[2]) /\ UNCHANGED <<orchVars, cfgVars, vmVars, caseVars, schedVars, threadVars>>
  \/ \E r \in PhysRanges : PhysWrite(r[1], r[2]) /\ UNCHANGED <<orchVars, cfgVars, vmVars, caseVars, schedVars, threadVars>>
  \/ \E r \in PhysRanges : PhysRead(r[1], r[2]) /\ UNCHANGED <<orchVars, cfgVars, vmVars, caseVars, schedVars, threadVars>>

SpecRW == InitMem /\ [][RWNext]_vars

(***************************************************************************)
(* The virtual machine (vm.rs): coverage points, the run loop, reset from  *)
(* the dirty log, fork.                                                    *)
(***************************************************************************)

\* the Vm values of one behaviour
MaxVms == 2

\* the calls on Vm values in one behaviour
MaxVmOps == 5

\* the entries of one coverage vector
MaxCoverage == 3

\* vm.rs:266  the breakpoint instruction
INT3 == 204

\* vm.rs:400  the hlt instruction that ends the tests' code
HLT == 244

\* vm.rs:404  the address the tests load their code at
CodeBase == 4919 * PAGE_SIZE

\* vm.rs:396-401  the code of test_simple_coverage: the address of each
\* instruction and its first byte
Shellcode ==
  (CodeBase :> 72) @@ (CodeBase + 3 :> 72) @@ (CodeBase + 6 :> 49) @@ (CodeBase + 8 :> HLT)

\* the instruction that follows the one at rip
NextInstr(rip) ==
  IF \E a \in DOMAIN Shellcode : a > rip
  THEN CHOOSE a \in DOMAIN Shellcode :
         a > rip /\ \A b \in DOMAIN Shellcode : b > rip => a <= b
  ELSE rip + 1

\* a byte of a second page, which the guest stores to
DataAddr == 4920 * PAGE_SIZE

\* an address of no mapped page
UnmappedAddr == 4921 * PAGE_SIZE

\* kvm_regs as Default::default() leaves it (vm.rs:166)
DefaultRegs == [rip |-> 0, rflags |-> 0]

\* the places the page directory of a memory can have; it goes into sregs.cr3
PageDirectories == {0, PAGE_SIZE}

\* vm.rs:83  Vm::new on a memory that holds the code and a zeroed data page
Vm_new(memory, page_directory) ==
  [memory |-> memory,
   regs |-> DefaultRegs,
   sregs |-> [cr3 |-> page_directory],
   coverage |-> << >>,
   coverage_points |-> << >>,
   dirty |-> {}]

\* the memory the caller builds before Vm::new (vm.rs:404-405), with a data page
LoadedMemory == Shellcode @@ (DataAddr :> 0)

\* memory.write of one byte by the host: the page enters the dirty log on a host
\* whose log reports host writes
HostWrite(vm, addr, byte) ==
  [vm EXCEPT !.memory[addr] = byte,
             !.dirty = IF hostWritesLogged THEN @ \cup {PageOf(addr)} ELSE @]

\* add_coverage_point that records the byte again on a repeated call
add_coverage_point_Again(vm, addr) ==
  IF addr \notin DOMAIN vm.memory THEN [res |-> "Err", vm |-> vm]
  ELSE [res |-> "true",
        vm |-> [HostWrite(vm, addr, INT3) EXCEPT
                  !.coverage_points =
                     [a \in DOMAIN @ \cup {addr} |-> IF a = addr THEN vm.memory[addr] ELSE @[a]]]]

\* vm.rs:256  Vm::add_coverage_point
add_coverage_point(vm, addr) ==
  IF addr \in DOMAIN vm.coverage_points THEN [res |-> "false", vm |-> vm]
  ELSE IF addr \notin DOMAIN vm.memory THEN [res |-> "Err", vm |-> vm]
  ELSE [res |-> "true",
        vm |-> [HostWrite(vm, addr, INT3) EXCEPT
                  !.coverage_points = @ @@ (addr :> vm.memory[addr])]]

\* vm.rs:313  cpu.run(): the guest executes from rip until an exit.  A breakpoint
\* instruction exits with Debug at its own address, hlt exits with Hlt after it,
\* and an address without code, or the address stop, exits otherwise.
RECURSIVE cpu_run(_, _, _, _)
cpu_run(memory, rip, stop, executed) ==
  IF rip = stop \/ rip \notin DOMAIN Shellcode
    THEN [exit |-> "Other", rip |-> rip, executed |-> executed]
  ELSE IF memory[rip] = INT3
    THEN [exit |-> "Debug", rip |-> rip, executed |-> executed]
  ELSE IF memory[rip] = HLT
    THEN [exit |-> "Hlt", rip |-> rip + 1, executed |-> executed \cup {rip}]
  ELSE cpu_run(memory, NextInstr(rip), stop, executed \cup {rip})

\* a hit that restores the byte and records nothing
record_hit_Silent(vm, rip) == HostWrite(vm, rip, vm.coverage_points[rip])

\* vm.rs:321-322  a Debug exit at a coverage point: the recorded byte goes back
\* to memory and rip is pushed on coverage
record_hit(vm, rip) ==
  [HostWrite(vm, rip, vm.coverage_points[rip]) EXCEPT !.coverage = Append(@, rip)]

\* the result of run with the rip of a Hlt exit as it is
VmExit_HltAfter(e) ==
  IF e.exit = "Debug" THEN <<"Breakpoint", e.rip>>
  ELSE IF e.exit = "Hlt" THEN <<"Hlt", e.rip>>
  ELSE <<"Unhandled", e.rip>>

\* vm.rs:324-329  the result of run for an exit that ends the loop
VmExit(e) ==
  IF e.exit = "Debug" THEN <<"Breakpoint", e.rip>>
  ELSE IF e.exit = "Hlt" THEN <<"Hlt", e.rip - 1>>
  ELSE <<"Unhandled", e.rip>>

\* the loop of run without the look-up in coverage_points: every Debug exit
\* ends the run
run_loop_NoPoints(vm, rip, stop, executed) ==
  LET e == cpu_run(vm.memory, rip, stop, executed)
  IN  [res |-> VmExit(e), vm |-> vm, exit |-> e]

\* vm.rs:312-331  the loop of run, from the cpu's rip on
RECURSIVE run_loop(_, _, _, _)
run_loop(vm, rip, stop, executed) ==
  LET e == cpu_run(vm.memory, rip, stop, executed)
  IN  IF e.exit = "Debug"
        THEN IF e.rip \in DOMAIN vm.coverage_points
               THEN IF Len(vm.coverage) >= MaxCoverage
                      THEN [res |-> <<"Running", e.rip>>, vm |-> vm, exit |-> e]
                    ELSE run_loop(record_hit(vm, e.rip), e.rip, stop, e.executed)
             ELSE [res |-> VmExit(e), vm |-> vm, exit |-> e]
      ELSE [res |-> VmExit(e), vm |-> vm, exit |-> e]

\* vm.rs:307  regs.rflags |= 2
SetBit1(rflags) == IF (rflags \div 2) % 2 = 1 THEN rflags ELSE rflags + 2

\* vm.rs:305  Vm::run.  get_dirty_log empties the log; the guest stores to its
\* data page when store holds.
run(vm, stop, store) ==
  LET loaded == [vm EXCEPT !.regs.rflags = SetBit1(@), !.dirty = {}]
      stored == IF store
                THEN [loaded EXCEPT !.memory[DataAddr] = 144,
                                    !.dirty = @ \cup {PageOf(DataAddr)}]
                ELSE loaded
  IN  run_loop(stored, vm.regs.rip, stop, {})

\* reset that takes the pages from this Vm itself
reset_FromSelf(vm, other) ==
  [vm EXCEPT !.dirty = IF hostWritesLogged THEN vm.dirty ELSE {},
             !.regs = other.regs,
             !.sregs = other.sregs,
             !.coverage = << >>]

\* reset that copies every page from other
reset_AllPages(vm, other) ==
  [vm EXCEPT !.memory = other.memory,
             !.dirty = IF hostWritesLogged THEN {PageOf(a) : a \in DOMAIN vm.memory} ELSE {},
             !.regs = other.regs,
             !.sregs = other.sregs,
             !.coverage = << >>]

\* vm.rs:273  Vm::reset: the pages of the dirty log are copied from other
reset(vm, other) ==
  LET log == vm.dirty
  IN  [vm EXCEPT !.memory = [a \in DOMAIN vm.memory |->
                               IF PageOf(a) \in log THEN other.memory[a] ELSE vm.memory[a]],
                 !.dirty = IF hostWritesLogged THEN log ELSE {},
                 !.regs = other.regs,
                 !.sregs = other.sregs,
                 !.coverage = << >>]

\* memory.clone(): a copy of the arena with page tables of the same layout
clone(memory) == memory

\* fork that takes the coverage points along
fork_WithPoints(vm) ==
  [Vm_new(clone(vm.memory), vm.sregs.cr3) EXCEPT
     !.regs = vm.regs, !.sregs = vm.sregs, !.coverage_points = vm.coverage_points]

\* vm.rs:337  Vm::fork: memory.clone(), Vm::new, then regs and sregs
fork(vm) ==
  [Vm_new(clone(vm.memory), vm.sregs.cr3) EXCEPT !.regs = vm.regs, !.sregs = vm.sregs]

\* the addresses asked for as coverage points: the tests' two, and an unmapped one
CoverageAddrs == {CodeBase, CodeBase + 3, UnmappedAddr}

\* where the guest exits for another reason than a breakpoint or hlt: nowhere,
\* or before its third instruction
Stops == {None, CodeBase + 6}

\* the values set_initial_regs gives rip: the tests' entry, and the second
\* instruction
EntryPoints == {CodeBase, CodeBase + 3}

VmInit ==
  /\ \E pd \in PageDirectories : vms = <<Vm_new(LoadedMemory, pd)>>
  /\ hostWritesLogged \in BOOLEAN
  /\ vmOps = 0
  /\ vmLast = [op |-> "new", v |-> 1, pre |-> << >>]

\* one more Vm::new, on a memory of its own
NewVm(pd) ==
  /\ vmOps < MaxVmOps
  /\ Len(vms) < MaxVms
  /\ vms' = Append(vms, Vm_new(LoadedMemory, pd))
  /\ vmLast' = [op |-> "new", v |-> Len(vms) + 1, pre |-> vms]
  /\ vmOps' = vmOps + 1
  /\ UNCHANGED hostWritesLogged

\* vm.rs:232  one call of set_initial_regs, on the value of get_initial_regs
SetInitialRegs(v, rip) ==
  /\ vmOps < MaxVmOps
  /\ vms' = [vms EXCEPT ![v].regs.rip = rip]
  /\ vmLast' = [op |-> "set_initial_regs", v |-> v, pre |-> vms]
  /\ vmOps' = vmOps + 1
  /\ UNCHANGED hostWritesLogged

\* vm.rs:256  one call of add_coverage_point
AddCoveragePoint(v, addr) ==
  /\ vmOps < MaxVmOps
  /\ LET r == add_coverage_point(vms[v], addr)
     IN  /\ vms' = [vms EXCEPT ![v] = r.vm]
         /\ vmLast' = [op |-> "add_coverage_point", v |-> v, addr |-> addr, res |-> r.res,
                       pre |-> vms]
  /\ vmOps' = vmOps + 1
  /\ UNCHANGED hostWritesLogged

\* vm.rs:305  one call of run that returns
VmRun(v, stop, store) ==
  /\ vmOps < MaxVmOps
  /\ LET r == run(vms[v], stop, store)
     IN  /\ r.res[1] # "Running"
         /\ vms' = [vms EXCEPT ![v] = r.vm]
         /\ vmLast' = [op |-> "run", v |-> v, res |-> r.res, exit |-> r.exit, pre |-> vms]
  /\ vmOps' = vmOps + 1
  /\ UNCHANGED hostWritesLogged

\* vm.rs:312-323  one call of run that does not return: the byte recorded for
\* the coverage point is itself the breakpoint instruction, so every hit writes
\* the breakpoint back, pushes rip and enters the guest at the same rip again.
\* The state is the one the loop is in after MaxCoverage pushes; the caller
\* makes no further call.
VmRunHang(v, stop, store) ==
  /\ vmOps < MaxVmOps
  /\ \E r \in {run(vms[v], stop, store)} :
       /\ r.res[1] = "Running"
       /\ vms' = [vms EXCEPT ![v] = r.vm]
       /\ vmLast' = [op |-> "run_hang", v |-> v, rip |-> r.res[2], pre |-> vms]
  /\ vmOps' = MaxVmOps
  /\ UNCHANGED hostWritesLogged

\* vm.rs:273  one call of reset
Reset(v, o) ==
  /\ vmOps < MaxVmOps
  /\ v # o
  /\ vms' = [vms EXCEPT ![v] = reset(vms[v], vms[o])]
  /\ vmLast' = [op |-> "reset", v |-> v, other |-> o, log |-> vms[v].dirty, pre |-> vms]
  /\ vmOps' = vmOps + 1
  /\ UNCHANGED hostWritesLogged

\* vm.rs:337  one call of fork
Fork(v) ==
  /\ vmOps < MaxVmOps
  /\ Len(vms) < MaxVms
  /\ vms' = Append(vms, fork(vms[v]))
  /\ vmLast' = [op |-> "fork", v |-> Len(vms) + 1, parent |-> v, pre |-> vms]
  /\ vmOps' = vmOps + 1
  /\ UNCHANGED hostWritesLogged

VmNext ==
  \/ \E pd \in PageDirectories : NewVm(pd) /\ UNCHANGED <<orchVars, cfgVars, memVars, caseVars, schedVars, threadVars>>
  \/ \E v \in DOMAIN vms, rip \in EntryPoints :
       SetInitialRegs(v, rip) /\ UNCHANGED <<orchVars, cfgVars, memVars, caseVars, schedVars, threadVars>>
  \/ \E v \in DOMAIN vms, addr \in CoverageAddrs :
       AddCoveragePoint(v, addr) /\ UNCHANGED <<orchVars, cfgVars, memVars, caseVars, schedVars, threadVars>>
  \/ \E v \in DOMAIN vms, stop \in Stops, store \in BOOLEAN :
       VmRun(v, stop, store) /\ UNCHANGED <<orchVars, cfgVars, memVars, caseVars, schedVars, threadVars>>
  \/ \E v \in DOMAIN vms, stop \in Stops, store \in BOOLEAN :
       VmRunHang(v, stop, store) /\ UNCHANGED <<orchVars, cfgVars, memVars, caseVars, schedVars, threadVars>>
  \/ \E v \in DOMAIN vms, o \in DOMAIN vms : Reset(v, o) /\ UNCHANGED <<orchVars, cfgVars, memVars, caseVars, schedVars, threadVars>>
  \/ \E v \in DOMAIN vms : Fork(v) /\ UNCHANGED <<orchVars, cfgVars, memVars, caseVars, schedVars, threadVars>>

InitVm == VmInit /\ OrchIdle /\ CfgIdle /\ MemIdle /\ CaseIdle /\ SchedIdle /\ ThreadIdle

SpecVm == InitVm /\ [][VmNext]_vars

(***************************************************************************)
(* The workers' cases on the template: FuzzCase::new and FuzzCase::run     *)
(* (fuzz.rs:50-113) on the Vm of vm.rs.                                    *)
(***************************************************************************)

\* the calls of vm.run() the workers make in one behaviour
MaxCaseRuns == 3

\* fuzz.rs:103  the address FuzzCase::run writes the input at, 0x80_000
InputAddr == 524288

\* fuzz.rs:52  app.exe.vm, the template: the first Vm value
Template == 1

\* the workers of fuzz.rs:595, each with one FuzzCase
CaseWorkers == 1 .. MaxJobs

\* the first byte of case.input.data; 0 stands for an input without data
InputBytes == {0, 7}

\* the template as App::new leaves it: the code, a data page and the input page
\* mapped, rip at the entry, and breakpoints installed at the given points
TemplateVm(pd, rip, points) ==
  LET v0 == [Vm_new(LoadedMemory @@ (InputAddr :> 0), pd) EXCEPT !.regs.rip = rip]
      v1 == IF CodeBase \in points THEN add_coverage_point(v0, CodeBase).vm ELSE v0
  IN  IF CodeBase + 3 \in points THEN add_coverage_point(v1, CodeBase + 3).vm ELSE v1

CaseInit ==
  /\ hostWritesLogged \in BOOLEAN
  /\ \E pd \in PageDirectories, points \in {{}, {CodeBase + 3}} :
       vms = <<TemplateVm(pd, CodeBase, points)>>
  /\ vmOps = 0
  /\ vmLast = [op |-> "new", v |-> Template]
  /\ cases = [w \in CaseWorkers |-> [vm |-> 0, in_run |-> FALSE]]

\* fuzz.rs:50-58  FuzzCase::new: the worker's Vm is a fork of the template
CaseNew(w) ==
  /\ cases[w].vm = 0
  /\ vms' = Append(vms, fork(vms[Template]))
  /\ cases' = [cases EXCEPT ![w].vm = Len(vms) + 1]
  /\ vmLast' = [op |-> "fork", v |-> Len(vms) + 1]
  /\ UNCHANGED <<hostWritesLogged, vmOps>>

\* fuzz.rs:91-105  FuzzCase::run up to its loop: the worker's Vm is reset from
\* the template under the exe mutex, then the input is written into it
CaseRunBegin(w, byte) ==
  /\ cases[w].vm # 0
  /\ ~cases[w].in_run
  /\ vmOps < MaxCaseRuns
  /\ \E fresh \in {reset(vms[cases[w].vm], vms[Template])} :
       vms' = [vms EXCEPT ![cases[w].vm] =
                 IF byte = 0 THEN fresh ELSE HostWrite(fresh, InputAddr, byte)]
  /\ cases' = [cases EXCEPT ![w].in_run = TRUE]
  /\ vmLast' = [op |-> "reset", v |-> cases[w].vm]
  /\ UNCHANGED <<hostWritesLogged, vmOps>>

\* the loop of FuzzCase::run on the template instead of the worker's Vm
CaseVmRun_OnTemplate(w, stop, store, exit) ==
  /\ cases[w].in_run
  /\ vmOps < MaxCaseRuns
  /\ \E r \in {run(vms[Template], stop, store)} :
       /\ r.res[1] # "Running"
       /\ vms' = [vms EXCEPT ![Template] = r.vm]
       /\ vmLast' = [op |-> "run", v |-> Template]
  /\ cases' = [cases EXCEPT ![w].in_run = ~exit]
  /\ vmOps' = vmOps + 1
  /\ UNCHANGED hostWritesLogged

\* fuzz.rs:107-113  one turn of the loop of FuzzCase::run: vm.run() on the
\* worker's Vm; the loop ends on the exit the Vm reports as the guest's end
CaseVmRun(w, stop, store, exit) ==
  /\ cases[w].in_run
  /\ vmOps < MaxCaseRuns
  /\ \E r \in {run(vms[cases[w].vm], stop, store)} :
       /\ r.res[1] # "Running"
       /\ vms' = [vms EXCEPT ![cases[w].vm] = r.vm]
       /\ vmLast' = [op |-> "run", v |-> cases[w].vm]
  /\ cases' = [cases EXCEPT ![w].in_run = ~exit]
  /\ vmOps' = vmOps + 1
  /\ UNCHANGED hostWritesLogged

CaseNext ==
  \/ \E w \in CaseWorkers :
       CaseNew(w) /\ UNCHANGED <<orchVars, cfgVars, memVars, schedVars, threadVars>>
  \/ \E w \in CaseWorkers, byte \in InputBytes :
       CaseRunBegin(w, byte) /\ UNCHANGED <<orchVars, cfgVars, memVars, schedVars, threadVars>>
  \/ \E w \in CaseWorkers, store \in BOOLEAN, exit \in BOOLEAN :
       CaseVmRun(w, None, store, exit) /\ UNCHANGED <<orchVars, cfgVars, memVars, schedVars, threadVars>>

InitCase == CaseInit /\ OrchIdle /\ CfgIdle /\ MemIdle /\ SchedIdle /\ ThreadIdle

SpecCase == InitCase /\ [][CaseNext]_vars

(***************************************************************************)
(* The scheduler's skip factor: input_speed_factor and input_skip_factor   *)
(* (fuzz.rs:368-422).                                                      *)
(***************************************************************************)

\* the largest fuzz_input_count input_skip_factor is called with
MaxSkipCount == 50

clamp(x, lo, hi) == IF x < lo THEN lo ELSE IF x > hi THEN hi ELSE x

\* fuzz.rs:413-415  size_of::<isize>() * 8 - leading_zeros - 1 of a length above 0
RECURSIVE log2(_)
log2(n) == IF n <= 1 THEN 0 ELSE 1 + log2(n \div 2)

\* fuzz.rs:368  input_speed_factor, on the microseconds since the start, the
\* mutations counted, the jobs and the microseconds of the case's start instant
input_speed_factor(elapsed_usecs, mutations, jobs, sample) ==
  LET avg_usecs_per_input == clamp((elapsed_usecs \div mutations) \div jobs, 1, 1000000)
      sample_usecs == clamp(sample, 1, 1000000)
  IN  IF sample_usecs >= avg_usecs_per_input
      THEN sample_usecs \div avg_usecs_per_input
      ELSE -(avg_usecs_per_input \div sample_usecs)

\* the age bands of input_skip_factor in the opposite order: older inputs lower
input_skip_factor_AgeReversed(speed, idx, count, len) ==
  LET speed_factor == clamp(speed, -10, 2)
      percentile == (idx * 100) \div count
      age == IF percentile <= 40 THEN -3 ELSE IF percentile <= 70 THEN -2
             ELSE IF percentile <= 80 THEN -1 ELSE IF percentile <= 90 THEN 0
             ELSE IF percentile <= 97 THEN 1 ELSE 2
      bias == IF len > 0 THEN clamp(log2(len) - 10, -5, 5) ELSE 0
  IN  [speed_factor |-> speed_factor, penalty |-> speed_factor + age + bias,
       percentile |-> percentile, panic |-> FALSE]

\* fuzz.rs:388  input_skip_factor, on the value of input_speed_factor, file.idx,
\* the fuzz_input_count it loads and file.data.len(): the pair it returns, the
\* percentile, and whether it panics (a division by zero, or the last branch)
input_skip_factor(speed, idx, count, len) ==
  IF count = 0
  THEN [speed_factor |-> clamp(speed, -10, 2), penalty |-> 0, percentile |-> None,
        panic |-> TRUE]
  ELSE
  LET speed_factor == clamp(speed, -10, 2)
      percentile == (idx * 100) \div count
      age == IF percentile <= 40 THEN 2 ELSE IF percentile <= 70 THEN 1
             ELSE IF percentile <= 80 THEN 0 ELSE IF percentile <= 90 THEN -1
             ELSE IF percentile <= 97 THEN -2 ELSE -3
      bias == IF len > 0 THEN clamp(log2(len) - 10, -5, 5) ELSE 0
  IN  [speed_factor |-> speed_factor, penalty |-> speed_factor + age + bias,
       percentile |-> percentile, panic |-> percentile > 199]

\* the times input_speed_factor is called on, as <<elapsed, mutations, jobs,
\* sample>>: an average case, a fast one, a slow one, a very fast one
SpeedInputs == {<<1, 1, 1, 1>>, <<6, 1, 2, 1>>, <<4, 2, 2, 30>>, <<40, 2, 1, 1>>}

\* the corpus sizes and the data lengths input_skip_factor is called on
SkipCounts == {1, 3, MaxSkipCount}

SkipLens == {0, 1, 1023, 1024, 2048, 32768, 65536}

SkipInit == skipLast = [op |-> "none"] /\ current_file = << >> /\ tries = Empty
            /\ schedLast = [op |-> "none"]

\* one call of input_skip_factor on an entry of a corpus of `count` entries
SkipCall(t, idx, count, len) ==
  /\ skipLast' = [op |-> "input_skip_factor",
                  speed |-> input_speed_factor(t[1], t[2], t[3], t[4]),
                  idx |-> idx, count |-> count, len |-> len,
                  res |-> input_skip_factor(input_speed_factor(t[1], t[2], t[3], t[4]),
                                            idx, count, len)]
  /\ UNCHANGED <<current_file, tries, schedLast>>

SkipNext ==
  \E t \in SpeedInputs, count \in SkipCounts, len \in SkipLens :
    \E idx \in 0 .. count - 1 :
      SkipCall(t, idx, count, len) /\ UNCHANGED <<orchVars, cfgVars, memVars, vmVars, caseVars, threadVars>>

InitSkip == SkipInit /\ OrchIdle /\ CfgIdle /\ MemIdle /\ VmIdle /\ CaseIdle /\ ThreadIdle

SpecSkip == InitSkip /\ [][SkipNext]_vars

(***************************************************************************)
(* The scheduler: prepare_dynamic_input (fuzz.rs:424-481) over the corpus, *)
(* the shared cursor current_file and each worker's tries, while inputs    *)
(* are added to the corpus.                                                *)
(***************************************************************************)

\* the file names (content hashes) of one behaviour
MaxSchedFiles == 3

\* the candidates one call passes over on its random draws
MaxRejects == 2

SchedFiles == 1 .. MaxSchedFiles

SchedWorkers == 1 .. MaxJobs

\* the data length of the input filed under a name: an empty input, 2 KiB,
\* half a KiB, and 64 KiB for the others
FileLen(name) ==
  IF name = 1 THEN 0 ELSE IF name = 2 THEN 2048 ELSE IF name = 3 THEN 512 ELSE 65536

\* the times of the calls of input_speed_factor: an average case and a fast one
SchedSpeeds == {<<1, 1, 1, 1>>, <<6, 1, 2, 1>>}

\* Corpus::iter_from: the entries just after `name`, none if `name` is absent
iter_from(c, name) ==
  IF ~contains(c, name) THEN << >>
  ELSE SubSeq(c, (CHOOSE i \in 1 .. Len(c) : c[i].filename = name) + 1, Len(c))

\* what a call that examined `file` logs about it
Examined(file, count, s) ==
  [filename |-> file.filename, idx |-> file.idx, count |-> count,
   percentile |-> s.percentile, panic |-> s.panic]

\* fuzz.rs:435-462  the loop of prepare_dynamic_input: `file` is the candidate,
\* `files` the rest of the iterator; the random draw passes over `rejects`
\* candidates at most, and never over one whose skip factor is 1
RECURSIVE select_loop(_, _, _, _, _, _, _, _)
select_loop(c, count, files, file, tr, speed, rejects, examined) ==
  IF tr > 0
  THEN [panic |-> FALSE, file |-> file, files |-> files, tries |-> tr - 1,
        examined |-> examined, reason |-> "tries"]
  ELSE
  LET s == input_skip_factor(speed, file.idx, count, FileLen(file.filename))
      seen == Append(examined, Examined(file, count, s))
  IN  IF s.panic
      THEN [panic |-> TRUE, file |-> file, files |-> files, tries |-> tr,
            examined |-> seen, reason |-> "panic"]
      ELSE IF s.penalty <= 0
      THEN [panic |-> FALSE, file |-> file, files |-> files, tries |-> -s.penalty,
            examined |-> seen, reason |-> "skip_factor"]
      ELSE IF s.penalty = 1 \/ rejects = 0
      THEN [panic |-> FALSE, file |-> file, files |-> files, tries |-> tr,
            examined |-> seen, reason |-> "rand"]
      ELSE IF files = << >>
      THEN select_loop(c, count, Tail(c), Head(c), tr, speed, rejects - 1, seen)
      ELSE select_loop(c, count, Tail(files), Head(files), tr, speed, rejects - 1, seen)

\* fuzz.rs:424-463  prepare_dynamic_input up to the new value of the cursor:
\* the entry picked, the rest of the iterator, the new tries and the first
\* candidate; it panics on an empty corpus and when the iterator starts empty
prepare_dynamic_input(c, count, cursor, tr, speed, rejects) ==
  LET files == IF cursor # << >> THEN iter_from(c, cursor[1]) ELSE c
  IN  IF count = 0 \/ files = << >>
      THEN [panic |-> TRUE, reason |-> IF count = 0 THEN "unreachable" ELSE "unwrap"]
      ELSE [first |-> Head(files).filename] @@
           select_loop(c, count, Tail(files), Head(files), tr, speed, rejects, << >>)

\* the main phase with a corpus of one input, as the barrier leaves it at least
SchedInit ==
  /\ cfg = "none" /\ mode = DynamicMain /\ terminating = FALSE
  /\ switching_feedback = FALSE /\ COUNT = 0 /\ mutations_count = 0
  /\ crashes_count = 0 /\ owner = Empty /\ caller = Empty /\ dataLen = Empty
  /\ static_file_try_more = Empty /\ loopsStarted = 0 /\ begunAfterTerm = Empty
  /\ duplicateAdd = FALSE
  /\ corpus = add_file(<< >>, 0, 1).corpus
  /\ fuzz_input_count = add_file(<< >>, 0, 1).count
  /\ pc = [w \in SchedWorkers |-> "ready"]
  /\ input = [w \in SchedWorkers |-> 0]
  /\ current_file = << >>
  /\ tries = [w \in SchedWorkers |-> 0]
  /\ schedLast = [op |-> "none"]
  /\ skipLast = [op |-> "none"]

\* a thread that panicked under the corpus mutex has poisoned it
Poisoned == \E w \in SchedWorkers : pc[w] = "panicked"

\* an input filed with the counter not yet incremented when the mutex is released
AddFile_CountLater(name) ==
  /\ ~Poisoned
  /\ name <= Len(corpus) + 1
  /\ corpus' = add_file(corpus, fuzz_input_count, name).corpus
  /\ schedLast' = [op |-> "add_file", filename |-> name]
  /\ UNCHANGED <<cfg, flags, counters, owner, pc, locals,
                 ghosts, current_file, tries, skipLast>>

\* fuzz.rs:194-197  a worker files an input: corpus.add_file under the mutex.
\* The inputs are found in the order of their names.
AddFile(name) ==
  /\ ~Poisoned
  /\ name <= Len(corpus) + 1
  /\ \E r \in {add_file(corpus, fuzz_input_count, name)} :
       corpus' = r.corpus /\ fuzz_input_count' = r.count
  /\ schedLast' = [op |-> "add_file", filename |-> name]
  /\ UNCHANGED <<cfg, flags, COUNT, mutations_count, crashes_count, owner, pc, locals,
                 ghosts, current_file, tries, skipLast>>

\* fuzz.rs:424-474  one call of prepare_dynamic_input, under the corpus mutex
Select(w, t, rejects) ==
  /\ pc[w] = "ready"
  /\ \E r \in {IF Poisoned THEN [panic |-> TRUE, reason |-> "poisoned"]
               ELSE prepare_dynamic_input(corpus, fuzz_input_count, current_file, tries[w],
                                          input_speed_factor(t[1], t[2], t[3], t[4]),
                                          rejects)} :
       IF r.panic
       THEN /\ pc' = [pc EXCEPT ![w] = "panicked"]
            /\ schedLast' = [op |-> "panic", reason |-> r.reason]
            /\ UNCHANGED <<current_file, tries, input>>
       ELSE /\ current_file' = IF r.files = << >> THEN << >>
                               ELSE <<Head(r.files).filename>>
            /\ tries' = [tries EXCEPT ![w] = r.tries]
            /\ input' = [input EXCEPT ![w] = r.file.filename]
            /\ schedLast' = [op |-> "select", cursor |-> current_file,
                             first |-> r.first, file |-> r.file.filename,
                             examined |-> r.examined,
                             tries_before |-> tries[w], previous |-> input[w]]
            /\ pc' = pc
  /\ UNCHANGED <<cfg, flags, counters, corpus, owner, caller, dataLen,
                 static_file_try_more, ghosts, skipLast>>

SchedNext ==
  \/ \E name \in SchedFiles :
       AddFile(name) /\ UNCHANGED <<cfgVars, memVars, vmVars, caseVars, threadVars>>
  \/ \E w \in SchedWorkers, t \in SchedSpeeds, rejects \in 0 .. MaxRejects :
       Select(w, t, rejects) /\ UNCHANGED <<cfgVars, memVars, vmVars, caseVars, threadVars>>

InitSched == SchedInit /\ CfgIdle /\ MemIdle /\ VmIdle /\ CaseIdle /\ ThreadIdle

SpecSched == InitSched /\ [][SchedNext]_vars

(***************************************************************************)
(* The threads of a session to their end: the workers from their spawn to  *)
(* the count of the finished jobs (fuzz.rs:547-586), the supervisor        *)
(* (fuzz.rs:615-641), and the corpus cursor of prepare_dynamic_input.  The  *)
(* counters that only grow are kept up to the value the code can tell.     *)
(***************************************************************************)
\* the sessions of Configs that go through the dry run and can reach the main
\* phase: no socket fuzzer, feedback on, the default max_file_size
ThreadConfigs ==
  {c \in Configs : /\ ~c.socket_fuzzer
                   /\ c.feedback_method = "SOFT"
                   /\ c.max_file_size # 0
                   /\ c.max_input_size # 0}

\* fuzz.rs:644-669  a session whose threads are spawned and have not run yet
ThreadInit ==
  /\ cfg \in ThreadConfigs
  /\ mode = compute_fuzz_mode(cfg)
  /\ terminating = FALSE
  /\ switching_feedback = FALSE
  /\ COUNT = 0
  /\ mutations_count = 0
  /\ fuzz_input_count = 0
  /\ crashes_count = 0
  /\ corpus = << >>
  /\ owner = [l \in Locks |-> 0]
  /\ pc = [w \in Workers |-> "spawned"]
  /\ caller = [w \in Workers |-> "none"]
  /\ input = [w \in Workers |-> 0]
  /\ dataLen = [w \in Workers |-> 0]
  /\ static_file_try_more = [w \in Workers |-> FALSE]
  /\ loopsStarted = 0
  /\ begunAfterTerm = [w \in Workers |-> 0]
  /\ duplicateAdd = FALSE
  /\ job_active_count = 0
  /\ job_finished_count = 0
  /\ supervisor = "loop"
  /\ poisoned = {}

\* the mutexes the worker's next step locks
Requests(w) ==
  IF pc[w] = "spawned" THEN {"exe"}
  ELSE IF pc[w] = "run" THEN {"exe", "max_fuzz_run_time_ms"}
  ELSE IF pc[w] = "run_contains" THEN {"feedback", "corpus"}
  ELSE IF pc[w] = "adi_write" THEN {"max_cov", "fuzz_input_max_size"}
  ELSE IF pc[w] \in {"adi_corpus", "pdi_lock"} THEN {"corpus"}
  ELSE IF pc[w] = "pdi_select" THEN {"current_file"}
  ELSE {}

\* lock().unwrap() on a mutex a thread panicked under panics in turn
RequestsPoisoned(w) == Requests(w) \cap poisoned # {}

\* fuzz.rs:548-556  the worker counts itself active and builds its FuzzCase,
\* which forks the template under the exe mutex (fuzz.rs:52)
WorkerStart(w) ==
  /\ pc[w] = "spawned"
  /\ Free("exe")
  /\ job_active_count' = job_active_count + 1
  /\ Goto(w, "loop")
  /\ UNCHANGED <<shared, locals, ghosts, job_finished_count, supervisor, poisoned>>

\* fuzz.rs:560-568  WorkerLoop, with mutations_count and the count of the loops
\* kept up to MaxTickets, which lies above every cap
WorkerLoopLive(w) ==
  /\ pc[w] = "loop"
  /\ mutations_count' = Min(mutations_count + 1, MaxTickets)
  /\ IF CapReached(mutations_count)
     THEN /\ Goto(w, "done")
          /\ UNCHANGED tickets
     ELSE /\ Goto(w, "fetch")
          /\ loopsStarted' = Min(loopsStarted + 1, MaxTickets)
          /\ begunAfterTerm' =
               [begunAfterTerm EXCEPT ![w] = IF terminating THEN Min(@ + 1, 2) ELSE @]
  /\ UNCHANGED <<cfg, flags, COUNT, fuzz_input_count, crashes_count, corpus, owner, locals,
                 duplicateAdd>>

\* fuzz.rs:429-474  PdiSelect with the cursor.  The iterator starts after the
\* entry the cursor names; files.next().unwrap() panics on an empty iterator,
\* under the corpus mutex.  Else the loop stops at some entry (which one hangs
\* on the clock and on the random numbers) and the cursor takes the name of the
\* entry after it.
PdiSelectLive(w) ==
  /\ pc[w] = "pdi_select"
  /\ Free("current_file")
  /\ LET files == IF current_file = << >> THEN corpus
                  ELSE iter_from(corpus, current_file[1])
     IN  IF files = << >>
         THEN /\ Goto(w, "panicked")
              /\ owner' = Release("corpus")
              /\ poisoned' = poisoned \cup {"corpus"}
              /\ UNCHANGED <<input, current_file>>
         ELSE /\ \E i \in 1 .. Len(corpus) :
                   /\ input' = [input EXCEPT ![w] = ContentOf(corpus[i].filename)]
                   /\ current_file' = IF i = Len(corpus) THEN << >>
                                      ELSE <<corpus[i + 1].filename>>
              /\ owner' = Release("corpus")
              /\ Goto(w, "pdi_mangle")
              /\ UNCHANGED poisoned
  /\ UNCHANGED <<cfg, flags, counters, corpus, caller, dataLen, static_file_try_more,
                 ghosts, tries, schedLast, skipLast, job_active_count,
                 job_finished_count, supervisor>>

\* the worker locks a poisoned mutex: unwrap panics, and the unwinding thread
\* gives back the mutexes it holds, poisoned
PoisonPanic(w) ==
  /\ RequestsPoisoned(w)
  /\ Goto(w, "panicked")
  /\ owner' = [l \in Locks |-> IF owner[l] = w THEN 0 ELSE owner[l]]
  /\ poisoned' = poisoned \cup Held(w)
  /\ UNCHANGED <<cfg, flags, counters, corpus, locals, ghosts, job_active_count,
                 job_finished_count, supervisor>>

\* fuzz.rs:582-585  out of its loop, the worker counts itself finished
WorkerExit(w) ==
  /\ pc[w] = "done"
  /\ job_finished_count' = job_finished_count + 1
  /\ Goto(w, "finished")
  /\ UNCHANGED <<shared, locals, ghosts, job_active_count, supervisor, poisoned>>

\* fuzz.rs:635-637  the supervisor finds the termination flag set and leaves its
\* loop; an iteration that finds it unset changes nothing
SupervisorExit ==
  /\ supervisor = "loop"
  /\ is_terminating
  /\ supervisor' = "exited"
  /\ UNCHANGED <<orchVars, schedVars, job_active_count, job_finished_count, poisoned>>

\* the steps of the orchestrator as they are, those of this section, and the
\* panic on a poisoned mutex
ThreadNext ==
  \/ \E w \in Workers :
       ~RequestsPoisoned(w) /\ WorkerStart(w) /\ UNCHANGED schedVars /\ UNCHANGED <<cfgVars, memVars, vmVars, caseVars>>
  \/ \E w \in Workers :
       ~RequestsPoisoned(w) /\ WorkerLoopLive(w) /\ UNCHANGED <<schedVars, threadVars>>
       /\ UNCHANGED <<cfgVars, memVars, vmVars, caseVars>>
  \/ \E w \in Workers :
       ~RequestsPoisoned(w) /\ CheckTerm(w) /\ UNCHANGED <<schedVars, threadVars>>
       /\ UNCHANGED <<cfgVars, memVars, vmVars, caseVars>>
  \/ \E w \in Workers :
       ~RequestsPoisoned(w) /\ CheckCrash(w) /\ UNCHANGED <<schedVars, threadVars>>
       /\ UNCHANGED <<cfgVars, memVars, vmVars, caseVars>>
  \/ \E w \in Workers :
       ~RequestsPoisoned(w) /\ Fetch(w) /\ UNCHANGED <<schedVars, threadVars>>
       /\ UNCHANGED <<cfgVars, memVars, vmVars, caseVars>>
  \/ \E w \in Workers :
       ~RequestsPoisoned(w) /\ PrepareStatic(w) /\ UNCHANGED <<schedVars, threadVars>>
       /\ UNCHANGED <<cfgVars, memVars, vmVars, caseVars>>
  \/ \E w \in Workers :
       ~RequestsPoisoned(w) /\ FetchMode(w) /\ UNCHANGED <<schedVars, threadVars>>
       /\ UNCHANGED <<cfgVars, memVars, vmVars, caseVars>>
  \/ \E w \in Workers :
       ~RequestsPoisoned(w) /\ SdmsCount(w) /\ UNCHANGED <<schedVars, threadVars>>
       /\ UNCHANGED <<cfgVars, memVars, vmVars, caseVars>>
  \/ \E w \in Workers :
       ~RequestsPoisoned(w) /\ SdmsMode(w) /\ UNCHANGED <<schedVars, threadVars>>
       /\ UNCHANGED <<cfgVars, memVars, vmVars, caseVars>>
  \/ \E w \in Workers :
       ~RequestsPoisoned(w) /\ SdmsSwitch(w) /\ UNCHANGED <<schedVars, threadVars>>
       /\ UNCHANGED <<cfgVars, memVars, vmVars, caseVars>>
  \/ \E w \in Workers :
       ~RequestsPoisoned(w) /\ SdmsWait(w) /\ UNCHANGED <<schedVars, threadVars>>
       /\ UNCHANGED <<cfgVars, memVars, vmVars, caseVars>>
  \/ \E w \in Workers :
       ~RequestsPoisoned(w) /\ SdmsTerm(w) /\ UNCHANGED <<schedVars, threadVars>>
       /\ UNCHANGED <<cfgVars, memVars, vmVars, caseVars>>
  \/ \E w \in Workers :
       ~RequestsPoisoned(w) /\ SdmsClear(w) /\ UNCHANGED <<schedVars, threadVars>>
       /\ UNCHANGED <<cfgVars, memVars, vmVars, caseVars>>
  \/ \E w \in Workers :
       ~RequestsPoisoned(w) /\ SdmsSetMinimize(w) /\ UNCHANGED <<schedVars, threadVars>>
       /\ UNCHANGED <<cfgVars, memVars, vmVars, caseVars>>
  \/ \E w \in Workers :
       ~RequestsPoisoned(w) /\ SdmsEmpty(w) /\ UNCHANGED <<schedVars, threadVars>>
       /\ UNCHANGED <<cfgVars, memVars, vmVars, caseVars>>
  \/ \E w \in Workers :
       ~RequestsPoisoned(w) /\ SdmsSetMain(w) /\ UNCHANGED <<schedVars, threadVars>>
       /\ UNCHANGED <<cfgVars, memVars, vmVars, caseVars>>
  \/ \E w \in Workers :
       ~RequestsPoisoned(w) /\ AdiWrite(w) /\ UNCHANGED <<schedVars, threadVars>>
       /\ UNCHANGED <<cfgVars, memVars, vmVars, caseVars>>
  \/ \E w \in Workers :
       ~RequestsPoisoned(w) /\ AdiCorpus(w) /\ UNCHANGED <<schedVars, threadVars>>
       /\ UNCHANGED <<cfgVars, memVars, vmVars, caseVars>>
  \/ \E w \in Workers :
       ~RequestsPoisoned(w) /\ Pdi(w) /\ UNCHANGED <<schedVars, threadVars>>
       /\ UNCHANGED <<cfgVars, memVars, vmVars, caseVars>>
  \/ \E w \in Workers :
       ~RequestsPoisoned(w) /\ PdiLock(w) /\ UNCHANGED <<schedVars, threadVars>>
       /\ UNCHANGED <<cfgVars, memVars, vmVars, caseVars>>
  \/ \E w \in Workers :
       ~RequestsPoisoned(w) /\ PdiMangle(w) /\ UNCHANGED <<schedVars, threadVars>>
       /\ UNCHANGED <<cfgVars, memVars, vmVars, caseVars>>
  \/ \E w \in Workers :
       ~RequestsPoisoned(w) /\ Run(w) /\ UNCHANGED <<schedVars, threadVars>>
       /\ UNCHANGED <<cfgVars, memVars, vmVars, caseVars>>
  \/ \E w \in Workers :
       ~RequestsPoisoned(w) /\ RunContains(w) /\ UNCHANGED <<schedVars, threadVars>>
       /\ UNCHANGED <<cfgVars, memVars, vmVars, caseVars>>
  \/ \E w \in Workers :
       ~RequestsPoisoned(w) /\ RunEnd(w) /\ UNCHANGED <<schedVars, threadVars>>
       /\ UNCHANGED <<cfgVars, memVars, vmVars, caseVars>>
  \/ \E w \in Workers :
       ~RequestsPoisoned(w) /\ PdiSelectLive(w) /\ UNCHANGED <<cfgVars, memVars, vmVars, caseVars>>
  \/ \E w \in Workers :
       ~RequestsPoisoned(w) /\ WorkerExit(w) /\ UNCHANGED schedVars /\ UNCHANGED <<cfgVars, memVars, vmVars, caseVars>>
  \/ \E w \in Workers :
       PoisonPanic(w) /\ UNCHANGED schedVars /\ UNCHANGED <<cfgVars, memVars, vmVars, caseVars>>
  \/ SupervisorExit /\ UNCHANGED <<cfgVars, memVars, vmVars, caseVars>>
  \/ Crash /\ UNCHANGED <<cfgVars, memVars, vmVars, caseVars, schedVars, threadVars>>

InitThread == ThreadInit /\ CfgIdle /\ MemIdle /\ VmIdle /\ CaseIdle /\ SchedIdle

\* a step of worker w: every step of a worker moves its pc
WorkerMoves(w) == w \in Workers /\ ThreadNext /\ pc'[w] # pc[w]

\* the scheduler runs every thread again and again, and a thread that waits
\* for a mutex gets it when the mutex is free again and again
ThreadFairness ==
  /\ \A w \in 1 .. MaxJobs : SF_vars(WorkerMoves(w))
  /\ WF_vars(SupervisorExit /\ UNCHANGED <<cfgVars, memVars, vmVars, caseVars>>)

SpecThread == InitThread /\ [][ThreadNext]_vars /\ ThreadFairness

\* C14: the bump allocator hands out each frame at most once: the frames handed
\* out are page-aligned, strictly increasing and below the arena size, the cursor
\* never exceeds the size and lies above every frame handed out, allocate_frame
\* returns none exactly when the cursor has reached the size, and deallocate_frame
\* leaves the cursor where it is.
C14_BumpAllocator ==
  /\ \A i \in 1 .. Len(allocLog) :
       /\ aligned(allocLog[i])
       /\ 0 <= allocLog[i] /\ allocLog[i] + PAGE_SIZE <= memSize
       /\ allocLog[i] < top
  /\ \A i, j \in 1 .. Len(allocLog) : i < j => allocLog[i] < allocLog[j]
  /\ top <= memSize
  /\ lastOp.op = "allocate_frame" =>
       /\ (lastOp.frame = None) <=> (lastOp.preTop >= memSize)
       /\ lastOp.frame # None =>
            lastOp.frame = lastOp.preTop /\ allocLog[Len(allocLog)] = lastOp.frame
  /\ lastOp.op = "deallocate_frame" => top = lastOp.preTop

C14_Witness ==
  /\ lastOp.op = "allocate_frame"
  /\ lastOp.frame = None
  /\ Len(allocLog) >= 3
  /\ pte # Empty


\* the pages that the len bytes at addr lie in
TouchedPages(addr, len) ==
  {page \in {PageOf(addr) + k * PAGE_SIZE : k \in 0 .. (len \div PAGE_SIZE) + 1} :
     page < addr + len}

FullyMapped(addr, len) == \A page \in TouchedPages(addr, len) : is_mapped(Mem, page)

\* C11: a write of N bytes at va whose pages are all mapped succeeds, and a read
\* of N bytes at the same va after it succeeds and returns exactly the bytes
\* written, wherever va lies in its page, however many pages the range crosses
\* and whatever frames the separate mmap calls gave these pages.
C11_RoundTrip ==
  /\ (lastOp.op = "write" /\ FullyMapped(lastOp.addr, lastOp.len)) => lastOp.res = "Ok"
  /\ (/\ lastOp.op = "read"
      /\ lastWrite.res = "Ok"
      /\ lastOp.addr = lastWrite.addr
      /\ lastOp.len = lastWrite.len)
     => (lastOp.res = "Ok" /\ lastOp.out = Pattern(lastWrite.seed, lastWrite.len))

\* more than a page was written from an unaligned address and read back, over
\* three pages mapped by two calls whose frames do not follow the addresses
C11_Witness ==
  /\ lastOp.op = "read"
  /\ lastOp.res = "Ok"
  /\ lastWrite.res = "Ok"
  /\ lastOp.addr = lastWrite.addr
  /\ lastOp.addr % PAGE_SIZE # 0
  /\ lastOp.len = PAGE_SIZE + 4
  /\ lastOp.len = lastWrite.len
  /\ get_page_pa(Mem, 4919 * PAGE_SIZE) > get_page_pa(Mem, 4920 * PAGE_SIZE)

\* the first page of the range that has no mapping
FirstUnmapped(addr, len) ==
  CHOOSE page \in TouchedPages(addr, len) :
    /\ ~is_mapped(Mem, page)
    /\ \A other \in TouchedPages(addr, len) : other < page => is_mapped(Mem, other)

\* C12: a read or a write of the address space that touches an unmapped page
\* returns AddressUnmapped with the address of the first unmapped page of its
\* range; a read or a write of the arena with offset + length beyond the size
\* returns PhysReadOutOfBounds or PhysWriteOutOfBounds and changes neither the
\* arena nor the caller's buffer.
C12_Errors ==
  /\ (lastOp.op \in {"read", "write"} /\ ~FullyMapped(lastOp.addr, lastOp.len))
     => (/\ lastOp.res = "AddressUnmapped"
         /\ lastOp.err_addr = FirstUnmapped(lastOp.addr, lastOp.len))
  /\ (lastOp.op = "pmem_write" /\ lastOp.addr + lastOp.len > memSize)
     => (lastOp.res = "PhysWriteOutOfBounds" /\ ~lastOp.changed)
  /\ (lastOp.op = "pmem_read" /\ lastOp.addr + lastOp.len > memSize)
     => (lastOp.res = "PhysReadOutOfBounds" /\ lastOp.out = InitialBuffer(lastOp.len))

\* a write found its first page mapped and a later page unmapped
C12_Witness ==
  /\ lastOp.op = "write"
  /\ lastOp.res = "AddressUnmapped"
  /\ is_mapped(Mem, PageOf(lastOp.addr))
  /\ lastOp.err_addr > PageOf(lastOp.addr)

\* C13: a write that fails with AddressUnmapped leaves the memory as it was, also
\* when its range starts in mapped pages and only a later page is unmapped, and
\* a read that fails leaves the caller's buffer as it was.
C13_FailedIsNoOp ==
  /\ (lastOp.op = "write" /\ lastOp.res = "AddressUnmapped")
     => ~lastOp.changed
  /\ (lastOp.op = "read" /\ lastOp.res = "AddressUnmapped")
     => lastOp.out = InitialBuffer(lastOp.len)

\* the Vm the last call was made on, before the call and after it
PreVm == vmLast.pre[vmLast.v]

PostVm == vms[vmLast.v]

\* C15: add_coverage_point(va) on a mapped va that is no coverage point yet
\* returns true, leaves INT3 at va and records va -> the byte that was at va;
\* on a va that is a coverage point already it returns false and changes neither
\* the memory nor the recorded byte.
C15_AddCoveragePoint ==
  vmLast.op = "add_coverage_point" =>
    /\ (vmLast.addr \in DOMAIN PreVm.memory /\ vmLast.addr \notin DOMAIN PreVm.coverage_points)
       => (/\ vmLast.res = "true"
           /\ PostVm.memory = [PreVm.memory EXCEPT ![vmLast.addr] = INT3]
           /\ DOMAIN PostVm.coverage_points = DOMAIN PreVm.coverage_points \cup {vmLast.addr}
           /\ PostVm.coverage_points[vmLast.addr] = PreVm.memory[vmLast.addr]
           /\ \A a \in DOMAIN PreVm.coverage_points :
                PostVm.coverage_points[a] = PreVm.coverage_points[a])
    /\ vmLast.addr \in DOMAIN PreVm.coverage_points
       => (/\ vmLast.res = "false"
           /\ PostVm.memory = PreVm.memory
           /\ PostVm.coverage_points = PreVm.coverage_points)

\* a second call on an armed point, whose byte in memory is INT3 and whose
\* recorded byte is not
C15_Witness ==
  /\ vmLast.op = "add_coverage_point"
  /\ vmLast.res = "false"
  /\ PreVm.memory[vmLast.addr] = INT3
  /\ PostVm.coverage_points[vmLast.addr] # INT3

\* the coverage points of the Vm that ran, and what the run pushed on coverage
Keys == DOMAIN PreVm.coverage_points

Hits == SubSeq(PostVm.coverage, Len(PreVm.coverage) + 1, Len(PostVm.coverage))

\* C16 as stated: after a run in which the instruction at a coverage point was
\* executed, coverage contains the point and the byte at the point is the
\* recorded one.
C16_InstrumentedRecorded ==
  vmLast.op = "run" =>
    \A va \in Keys \cap vmLast.exit.executed :
       /\ va \in Range(PostVm.coverage)
       /\ PostVm.memory[va] = PreVm.coverage_points[va]

\* C16, amended: a run that executes a coverage point whose byte is INT3 when
\* the run starts restores the recorded byte there, pushes the point on
\* coverage and goes on; the run pushes exactly these points, after the
\* entries coverage had, in the order the guest reached them.
C16_ArmedRecorded ==
  vmLast.op = "run" =>
    /\ \A va \in Keys \cap vmLast.exit.executed :
         PreVm.memory[va] = INT3
         => (va \in Range(Hits) /\ PostVm.memory[va] = PreVm.coverage_points[va])
    /\ SubSeq(PostVm.coverage, 1, Len(PreVm.coverage)) = PreVm.coverage
    /\ \A i \in 1 .. Len(Hits) : Hits[i] \in Keys /\ PreVm.memory[Hits[i]] = INT3
    /\ \A i, j \in 1 .. Len(Hits) : i < j => Hits[i] < Hits[j]

\* a run hit two coverage points and went on to hlt
C16_Witness ==
  /\ vmLast.op = "run"
  /\ Hits = <<CodeBase, CodeBase + 3>>
  /\ vmLast.res = <<"Hlt", CodeBase + 8>>

\* the Vm a reset copied from, as it was before the call
OtherVm == vmLast.pre[vmLast.other]

\* C17: after reset(other), every byte of a page that the dirty log reported
\* equals the byte other has there, every byte of the other pages is the one this
\* Vm had, regs and sregs are other's, and coverage is empty.
C17_Reset ==
  vmLast.op = "reset" =>
    /\ \A a \in DOMAIN PreVm.memory :
         PostVm.memory[a] = IF PageOf(a) \in vmLast.log THEN OtherVm.memory[a]
                            ELSE PreVm.memory[a]
    /\ PostVm.regs = OtherVm.regs
    /\ PostVm.sregs = OtherVm.sregs
    /\ PostVm.coverage = << >>
    /\ PostVm.coverage_points = PreVm.coverage_points

\* a reset found a dirty page and a clean page that both differed from other's,
\* and registers that differed from other's
C17_Witness ==
  /\ vmLast.op = "reset"
  /\ \E a \in DOMAIN PreVm.memory :
       PageOf(a) \in vmLast.log /\ PreVm.memory[a] # OtherVm.memory[a]
  /\ \E a \in DOMAIN PreVm.memory :
       PageOf(a) \notin vmLast.log /\ PreVm.memory[a] # OtherVm.memory[a]
  /\ PreVm.regs # OtherVm.regs
  /\ PreVm.sregs # OtherVm.sregs

\* C18 as stated: after a run that hit coverage points and a reset that follows
\* it, the byte at every coverage point of this Vm is INT3 again, the points
\* that were hit included.
C18_BreakpointsRearmed ==
  (vmLast.op = "reset" /\ PreVm.coverage # << >>)
  => \A va \in DOMAIN PostVm.coverage_points : PostVm.memory[va] = INT3

\* C18, amended: reset keeps the coverage points and their recorded bytes; the
\* byte at a point is INT3 after the reset exactly if the page of the point was
\* in the dirty log and other has INT3 there, or the page was not in the log
\* and the byte was INT3 before the reset.
C18_ArmedAfterReset ==
  vmLast.op = "reset" =>
    /\ PostVm.coverage_points = PreVm.coverage_points
    /\ \A va \in DOMAIN PostVm.coverage_points :
         (PostVm.memory[va] = INT3)
         <=> IF PageOf(va) \in vmLast.log THEN OtherVm.memory[va] = INT3
             ELSE PreVm.memory[va] = INT3

\* a reset from a Vm with the breakpoint in place left a point that was hit
\* without its breakpoint
C18_Witness ==
  /\ vmLast.op = "reset"
  /\ \E va \in DOMAIN PreVm.coverage_points :
       /\ va \in Range(PreVm.coverage)
       /\ OtherVm.memory[va] = INT3
       /\ PostVm.memory[va] # INT3

\* the Vm a fork was taken from, as it was before the call
ParentVm == vmLast.pre[vmLast.parent]

\* C19: the Vm that fork returns has the memory, the regs and the sregs of its
\* parent and an empty coverage and no coverage points; and a call on one Vm
\* changes no other Vm.
C19_Fork ==
  /\ vmLast.op = "fork" =>
       /\ PostVm.memory = ParentVm.memory
       /\ PostVm.regs = ParentVm.regs
       /\ PostVm.sregs = ParentVm.sregs
       /\ PostVm.coverage = << >>
       /\ PostVm.coverage_points = << >>
  /\ \A u \in DOMAIN vmLast.pre : u # vmLast.v => vms[u] = vmLast.pre[u]

\* a fork of a Vm that had run, with a coverage point, an entry in coverage and a
\* byte the guest stored
C19_Witness ==
  /\ vmLast.op = "fork"
  /\ ParentVm.coverage # << >>
  /\ ParentVm.coverage_points # << >>
  /\ ParentVm.memory[DataAddr] # 0
  /\ ParentVm.regs # DefaultRegs

\* C20: a run returns Hlt(rip - 1) for a Hlt exit, Breakpoint(rip) for a Debug
\* exit at a rip that is no coverage point, Unhandled(rip) for any other exit,
\* and nothing else; it does not return on a Debug exit at a coverage point.
C20_RunOutcomes ==
  vmLast.op = "run" =>
    /\ vmLast.exit.exit \in {"Hlt", "Debug", "Other"}
    /\ vmLast.exit.exit = "Hlt" => vmLast.res = <<"Hlt", vmLast.exit.rip - 1>>
    /\ vmLast.exit.exit = "Debug" =>
         (vmLast.exit.rip \notin Keys /\ vmLast.res = <<"Breakpoint", vmLast.exit.rip>>)
    /\ vmLast.exit.exit = "Other" => vmLast.res = <<"Unhandled", vmLast.exit.rip>>

\* a run went on after a Debug exit at a coverage point and returned on a
\* Debug exit at an address that is none
C20_Witness ==
  /\ vmLast.op = "run"
  /\ Hits # << >>
  /\ vmLast.res[1] = "Breakpoint"
  /\ vmLast.res[2] \notin Keys

\* C21: the template is never changed and never run: over every interleaving of
\* FuzzCase::new and FuzzCase::run by the workers, the memory, regs, sregs and
\* coverage_points of the template stay what they were at App construction, and
\* run is called on the workers' forks only.
C21_TemplatePristine ==
  [][/\ vms'[Template].memory = vms[Template].memory
     /\ vms'[Template].regs = vms[Template].regs
     /\ vms'[Template].sregs = vms[Template].sregs
     /\ vms'[Template].coverage_points = vms[Template].coverage_points
     /\ vmLast'.op = "run" =>
          /\ vmLast'.v # Template
          /\ \E w \in CaseWorkers : cases[w].vm = vmLast'.v]_vars

\* two workers have their forks; one ran the guest, which stored to the data
\* page, on an input written into its fork, with breakpoints in the template
C21_Witness ==
  /\ Len(vms) = 3
  /\ vmLast.op = "run"
  /\ vms[vmLast.v].memory[DataAddr] # vms[Template].memory[DataAddr]
  /\ vms[vmLast.v].memory[InputAddr] # vms[Template].memory[InputAddr]
  /\ vms[Template].coverage_points # << >>
  /\ vmOps = MaxCaseRuns

\* the skip factor of the last call with another idx, and with another length
SkipAtIdx(idx) ==
  input_skip_factor(skipLast.speed, idx, skipLast.count, skipLast.len).penalty

SkipAtLen(len) ==
  input_skip_factor(skipLast.speed, skipLast.idx, skipLast.count, len).penalty

\* C22 as stated: with the speed factor fixed, the skip factor lies in -18 .. 9,
\* does not increase with idx for a fixed fuzz_input_count, and does not
\* decrease with the data length, the empty input included.
C22_SkipMonotone ==
  skipLast.op = "input_skip_factor" =>
    /\ skipLast.res.penalty \in -18 .. 9
    /\ \A idx \in skipLast.idx .. skipLast.count - 1 : SkipAtIdx(idx) <= skipLast.res.penalty
    /\ \A len \in SkipLens : len >= skipLast.len => SkipAtLen(len) >= skipLast.res.penalty

\* C22, amended: the skip factor lies in -18 .. 9 and does not increase with
\* idx; it does not decrease with the data length over the inputs that have
\* data, and the empty input has the factor of an input of 1024 bytes.
C22_SkipMonotoneNonEmpty ==
  skipLast.op = "input_skip_factor" =>
    /\ skipLast.res.penalty \in -18 .. 9
    /\ ~skipLast.res.panic
    /\ \A idx \in skipLast.idx .. skipLast.count - 1 : SkipAtIdx(idx) <= skipLast.res.penalty
    /\ \A len \in SkipLens :
         (skipLast.len >= 1 /\ len >= skipLast.len) => SkipAtLen(len) >= skipLast.res.penalty
    /\ skipLast.len = 0 => skipLast.res.penalty = SkipAtLen(1024)

\* the newest input of a large corpus, one byte long, on a fast case: the
\* lowest factor
C22_Witness ==
  /\ skipLast.op = "input_skip_factor"
  /\ skipLast.idx = skipLast.count - 1
  /\ skipLast.res.percentile >= 98
  /\ skipLast.len = 1
  /\ skipLast.res.penalty = -18

\* C23: a call of prepare_dynamic_input made with tries above 0, that is one of
\* the calls that follow an entry accepted on a skip factor at or below 0,
\* selects the entry the same worker's previous call selected.
C23_TriesReuseFile ==
  (schedLast.op = "select" /\ schedLast.tries_before > 0)
  => schedLast.file = schedLast.previous

\* C28: the first candidate a call of prepare_dynamic_input examines is the
\* entry whose name the cursor holds, or the first entry of the corpus when the
\* cursor is empty, and the call does not fail on a cursor that names an entry.
C28_ResumesAtCursor ==
  /\ schedLast.op = "select" =>
       schedLast.first = IF schedLast.cursor = << >> THEN corpus[1].filename
                         ELSE schedLast.cursor[1]
  /\ schedLast.op = "panic" => schedLast.reason # "unwrap"

\* C29: every entry input_skip_factor is called on has idx below the
\* fuzz_input_count loaded by the call, so its percentile is at most 99 and the
\* call does not panic; and every entry of the corpus has idx below the count.
C29_IdxBelowCount ==
  /\ \A i \in 1 .. Len(corpus) : corpus[i].idx < fuzz_input_count
  /\ schedLast.op = "select" =>
       \A i \in 1 .. Len(schedLast.examined) :
          /\ schedLast.examined[i].idx < schedLast.examined[i].count
          /\ schedLast.examined[i].percentile \in 0 .. 99
          /\ ~schedLast.examined[i].panic
  /\ schedLast.op = "panic" => schedLast.reason \in {"unwrap", "poisoned"}

\* a call examined the newest entry of a corpus that had grown to three
\* entries, after passing over another entry
C29_Witness ==
  /\ schedLast.op = "select"
  /\ fuzz_input_count = 3
  /\ Len(schedLast.examined) >= 2
  /\ \E i \in 1 .. Len(schedLast.examined) :
       schedLast.examined[i].idx = 2 /\ schedLast.examined[i].percentile = 66
  /\ \E i \in 1 .. Len(schedLast.examined) : schedLast.examined[i].idx = 0

\* C24: at the step that makes the mode DynamicMain the corpus is either the
\* synthetic empty input alone, with fuzz_input_count 1, or the inputs the dry
\* run added without a synthetic input, also when several workers have left
\* the barrier and each has read fuzz_input_count = 0.
C24_SyntheticOnlyWhenEmpty ==
  [][(mode # DynamicMain /\ mode' = DynamicMain) =>
       \/ /\ corpus' = <<[filename |-> DynamicZeroSize, idx |-> 0]>>
          /\ fuzz_input_count' = 1
       \/ /\ Len(corpus') >= 1
          /\ ~contains(corpus', DynamicZeroSize)
          /\ fuzz_input_count' = Len(corpus')]_vars

\* the main phase was entered on the synthetic input alone, which two workers
\* had filed, each after reading a count of 0
C24_Witness ==
  /\ mode = DynamicMain
  /\ duplicateAdd
  /\ corpus = <<[filename |-> DynamicZeroSize, idx |-> 0]>>
  /\ fuzz_input_count = 1

\* C25: in a minimize session, a worker that fetches an input in the mode
\* DynamicMinimize gets false from fuzz_fetch_input, and fuzz_loop then sets the
\* termination flag and returns to the worker's loop without a run.
C25_MinimizeTerminates ==
  [][\A w \in Workers :
       (pc[w] = "fetch_mode" /\ get_mode = DynamicMinimize /\ pc'[w] # pc[w])
       => (terminating' /\ pc'[w] = "check_term")]_vars

\* C26: with crash_exit, a worker that has finished a fuzz_loop while
\* crashes_count > 0 starts no further fuzz_loop and leaves its loop with the
\* termination flag set; without crash_exit no step sets the termination flag
\* once a crash is recorded, and recording the crash does not set it either.
C26_CrashExit ==
  [][/\ \A w \in Workers :
          (cfg.crash_exit /\ crashes_count > 0 /\ pc[w] \in {"check_term", "check_crash"})
          => /\ pc'[w] \in {"check_term", "check_crash", "done"}
             /\ pc'[w] = "done" => terminating'
     /\ (~cfg.crash_exit /\ ~terminating /\ (crashes_count > 0 \/ crashes_count' > 0))
        => ~terminating']_vars

\* a crash_exit session in which a recorded crash made a worker set the flag
\* and leave its loop
C26_Witness ==
  /\ cfg.crash_exit
  /\ crashes_count > 0
  /\ terminating
  /\ \E w \in Workers : pc[w] = "done" /\ loopsStarted > 0

\* C27: between two resets the coverage vector of a Vm never holds the same
\* address twice, whatever the number of calls of run (reset empties the vector,
\* so the vector of a state is the part since the last reset).
C27_CoverageOneShot ==
  \A v \in DOMAIN vms :
    \A i, j \in DOMAIN vms[v].coverage :
      i # j => vms[v].coverage[i] # vms[v].coverage[j]

\* C30: the length of a worker's case.input.data is at most max_input_size, and
\* no call of input_should_read_new_file a worker is about to make asks
\* set_input_size for more than max_input_size, whatever max_input_size and
\* the length of the seed file.
C30_InputWithinMax ==
  \A w \in Workers :
    /\ dataLen[w] <= cfg.max_input_size
    /\ pc[w] = "static" =>
         ~input_should_read_new_file(get_mode, static_file_try_more[w], dataLen[w],
                                     cfg.max_input_size).panic

\* the worker is inside set_dynamic_main_state (fuzz.rs:216-280), the
\* add_dynamic_input it calls for the synthetic input included
InSdms(w) ==
  \/ pc[w] \in {"sdms", "sdms_mode", "sdms_switch", "sdms_wait", "sdms_term", "sdms_clear",
                "sdms_setmin", "sdms_empty", "sdms_setmain"}
  \/ InSyntheticAdd(w)

\* C31: switching_feedback is set only while some worker executes
\* set_dynamic_main_state: with no worker inside it the flag is false.
C31_SwitchingOnlyInBarrier ==
  (\A w \in Workers : ~InSdms(w)) => ~switching_feedback

\* C33: a worker that enters prepare_dynamic_input finds fuzz_input_count > 0,
\* so the unreachable!() at its entry is not executed, whatever mode the
\* session started in.
C33_CorpusNonEmptyAtPdi ==
  \A w \in Workers : pc[w] = "pdi" => fuzz_input_count > 0

\* C34: on a non-empty corpus no call of prepare_dynamic_input panics, whatever
\* the shared cursor holds, and the input a call selects is an entry of the
\* corpus.
C34_SelectsWithoutPanic ==
  Len(corpus) > 0 =>
    /\ \A w \in SchedWorkers : pc[w] # "panicked"
    /\ schedLast.op = "select" => contains(corpus, schedLast.file)

C32_DryRunEnds ==
  \A w \in 1 .. MaxJobs :
    (w \in Workers /\ pc[w] = "static")
      ~> (w \in Workers /\ pc[w] \in {"sdms", "done", "panicked"})

\* C35: a worker in the busy-wait of set_dynamic_main_state eventually leaves
\* it.
C35_BarrierWaitEnds ==
  \A w \in 1 .. MaxJobs :
    (w \in Workers /\ pc[w] \in {"sdms_wait", "sdms_term"})
      ~> (w \in Workers /\ pc[w] \notin {"sdms_wait", "sdms_term"})

\* C36: the termination flag, once set, stays set; the counts satisfy
\* job_finished_count <= job_active_count <= jobs; and once the flag is set the
\* supervisor and every worker leave their loops, so that job_finished_count
\* and job_active_count both reach jobs.
C36_AllExitAfterTermination ==
  /\ [][terminating => terminating']_vars
  /\ [](job_finished_count <= job_active_count /\ job_active_count <= cfg.jobs)
  /\ terminating ~> (/\ supervisor = "exited"
                     /\ job_finished_count = cfg.jobs
                     /\ job_active_count = cfg.jobs)

\* an order of the mutexes: a thread that holds one locks only later ones
LockRank ==
  [l \in Locks |-> IF l = "exe" THEN 0
                   ELSE IF l = "max_fuzz_run_time_ms" THEN 1
                   ELSE IF l = "current_file" THEN 3
                   ELSE 2]

====
